---------------------------- MODULE Spec2Model ----------------------------
(***************************************************************************)
(* Model of NumericListOp::execute (polars-core, list_borrowed.rs): the    *)
(* arithmetic of list columns.  One call of execute is one behaviour: the  *)
(* operands are drawn in Init, try_new plans the call, finish rewrites the *)
(* case and runs the physical kernel.                                      *)
(*                                                                         *)
(* Buffers (offsets, bitmaps, leaf arrays) are functions over 0..n-1, as   *)
(* they are indexed in the source.                                         *)
(***************************************************************************)
EXTENDS Integers, Sequences, FiniteSets, TLC

VARIABLES op, lhs, rhs, pc, helper, result, written

vars == <<op, lhs, rhs, pc, helper, result, written>>

(* Bounds of the operands drawn in Init. *)
MaxRows == 2
MaxWidth == 2
MaxStart == 1

-----------------------------------------------------------------------------
(* Buffers *)

BufLen(f) == Cardinality(DOMAIN f)

\* The buffer holding the elements of sequence s.
Buf(s) == [i \in 0..(Len(s) - 1) |-> s[i + 1]]

EmptyBuf == Buf(<<>>)

\* Option<Bitmap>
NoBitmap == [some |-> FALSE, bits |-> EmptyBuf]

SomeBitmap(bits) == [some |-> TRUE, bits |-> bits]

new_with_value(v, n) == [i \in 0..(n - 1) |-> v]

\* Option<&Bitmap>::map_or(true, |x| x.get_bit(i))
BitOr1(bm, i) == IF bm.some THEN bm.bits[i] ELSE TRUE

combine_validities_and(a, b) ==
    CASE a.some /\ b.some -> SomeBitmap([i \in DOMAIN a.bits |-> a.bits[i] /\ b.bits[i]])
      [] a.some /\ ~b.some -> a
      [] ~a.some /\ b.some -> b
      [] OTHER -> NoBitmap

\* OffsetsBuffer: len_proxy, length_at, first, range
len_proxy(offsets) == BufLen(offsets) - 1

start_at(offsets, i) == offsets[i]

length_at(offsets, i) == offsets[i + 1] - offsets[i]

range(offsets) == offsets[BufLen(offsets) - 1] - offsets[0]

\* OffsetsBuffer::leaf_ranges_iter: the leaf range [start, end) that outer row i
\* owns through every level of offsets.
RECURSIVE leaf_range_from(_, _, _, _)
leaf_range_from(levels, k, s, e) ==
    IF k > Len(levels) THEN <<s, e>>
    ELSE leaf_range_from(levels, k + 1, levels[k][s], levels[k][e])

leaf_range(levels, i) == leaf_range_from(levels, 1, i, i + 1)

\* OffsetsBuffer::leaf_full_start_end
leaf_full_start_end(levels) == leaf_range_from(levels, 1, 0, len_proxy(levels[1]))

-----------------------------------------------------------------------------
(* Leaf values.  An Int8 leaf is an integer in -128..127; a Float64 leaf   *)
(* is a fraction <<n, d>> in lowest terms with d > 0, or <<1, 0>> (inf),   *)
(* <<-1, 0>> (-inf), <<0, 0>> (NaN).                                       *)

Dtypes == {"Int8", "Float64"}

is_float(dtype) == dtype = "Float64"

Wrap(x) == ((x + 128) % 256) - 128

Abs(x) == IF x < 0 THEN -x ELSE x

Sign(x) == IF x < 0 THEN -1 ELSE IF x > 0 THEN 1 ELSE 0

RECURSIVE Gcd(_, _)
Gcd(a, b) == IF b = 0 THEN a ELSE Gcd(b, a % b)

\* The float n/d for integers n, d (d = 0 gives inf, -inf or NaN).
Frac(n, d) ==
    IF d = 0 THEN <<Sign(n), 0>>
    ELSE LET g == Gcd(Abs(n), Abs(d))
         IN  <<(Sign(d) * n) \div g, Abs(d) \div g>>

IsFinite(x) == x[2] # 0

\* floor of a finite fraction
FloorFrac(x) == Frac(x[1] \div x[2], 1)

\* Integer division truncating toward zero (Rust's `/`), b # 0.
TruncDiv(a, b) == Sign(a) * Sign(b) * (Abs(a) \div Abs(b))

\* Integer division rounding down, b # 0.
FloorDivInt(a, b) ==
    LET q == TruncDiv(a, b)
    IN  IF q * b # a /\ Sign(a) * Sign(b) < 0 THEN q - 1 ELSE q

Ops == {"Add", "Sub", "Mul", "Div", "Rem", "FloorDiv"}

\* PlNumArithmetic on the native type of dtype: wrapping on integers (a zero
\* denominator gives 0, which the validity masks), IEEE-754 on floats.
wrapping_add(dtype, a, b) ==
    IF is_float(dtype) THEN Frac(a[1] * b[2] + b[1] * a[2], a[2] * b[2])
    ELSE Wrap(a + b)

wrapping_sub(dtype, a, b) ==
    IF is_float(dtype) THEN Frac(a[1] * b[2] - b[1] * a[2], a[2] * b[2])
    ELSE Wrap(a - b)

wrapping_mul(dtype, a, b) ==
    IF is_float(dtype) THEN Frac(a[1] * b[1], a[2] * b[2])
    ELSE Wrap(a * b)

legacy_div(dtype, a, b) ==
    IF is_float(dtype) THEN Frac(a[1] * b[2], a[2] * b[1])
    ELSE IF b = 0 THEN 0 ELSE Wrap(TruncDiv(a, b))

wrapping_floor_div(dtype, a, b) ==
    IF is_float(dtype)
    THEN LET q == Frac(a[1] * b[2], a[2] * b[1])
         IN  IF IsFinite(q) THEN FloorFrac(q) ELSE q
    ELSE IF b = 0 THEN 0 ELSE Wrap(FloorDivInt(a, b))

wrapping_mod(dtype, a, b) ==
    IF is_float(dtype)
    THEN IF b[1] = 0 THEN <<0, 0>>
         ELSE LET q == Frac(a[1] * b[2], a[2] * b[1])
              IN  wrapping_sub(dtype, a, wrapping_mul(dtype, FloorFrac(q), b))
    ELSE IF b = 0 THEN 0 ELSE Wrap(a - b * FloorDivInt(a, b))

PlOp(o, dtype, a, b) ==
    CASE o = "Add" -> wrapping_add(dtype, a, b)
      [] o = "Sub" -> wrapping_sub(dtype, a, b)
      [] o = "Mul" -> wrapping_mul(dtype, a, b)
      [] o = "Div" -> legacy_div(dtype, a, b)
      [] o = "Rem" -> wrapping_mod(dtype, a, b)
      [] o = "FloorDiv" -> wrapping_floor_div(dtype, a, b)

Zero(dtype) == IF is_float(dtype) THEN <<0, 1>> ELSE 0

\* Series::cast of one leaf value (the supertype is never narrower).
CastValue(from, to, v) == IF is_float(to) /\ ~is_float(from) THEN Frac(v, 1) ELSE v

-----------------------------------------------------------------------------
(* Columns.  A column holds, outermost level first, one offsets buffer and *)
(* one optional validity bitmap per list level, and the leaf array with    *)
(* its optional validity.  A primitive column has no list level.           *)

Column(name, depth, leaf, len, offsets, validities, values, validity) ==
    [name |-> name, depth |-> depth, leaf |-> leaf, len |-> len,
     offsets |-> offsets, validities |-> validities,
     values |-> values, validity |-> validity]

\* Series::default(): an empty primitive series.
DefaultSeries == Column("", 0, "Int8", 0, <<>>, <<>>, EmptyBuf, NoBitmap)

\* Series::list_offsets_and_validities_recursive with the series itself:
\* the tuples data_lhs and data_rhs.
SideData(s) == [offsets |-> s.offsets, validities |-> s.validities, series |-> s]

\* Series::rechunk_validity: the validity of the outermost level.
rechunk_validity(s) == IF s.depth = 0 THEN s.validity ELSE s.validities[1]

\* Series::get_leaf_array().cast(dtype): the leaf array as values and validity.
LeafArray(s, dtype) ==
    [values |-> [i \in DOMAIN s.values |-> CastValue(s.leaf, dtype, s.values[i])],
     validity |-> s.validity]

(* The operands of Init. *)

\* The value at leaf index k of leaf pattern p.
LeafPattern(p, k) ==
    IF p = 1 THEN k + 1
    ELSE CASE k % 3 = 0 -> 0
           [] k % 3 = 1 -> 100
           [] OTHER -> -128

LeafValues(leaf, p, n) == [k \in 0..(n - 1) |-> CastValue("Int8", leaf, LeafPattern(p, k))]

\* The leaf validity of an operand: none, or every even index null.
LeafValidity(on, n) == IF on THEN SomeBitmap([k \in 0..(n - 1) |-> k % 2 = 1]) ELSE NoBitmap

Bitmaps(n) == {NoBitmap} \cup {SomeBitmap(b) : b \in [0..(n - 1) -> BOOLEAN]}

RECURSIVE OffsetsOf(_, _)
\* The offsets of rows of the given widths, the first row starting at start.
OffsetsOf(start, widths) ==
    IF widths = <<>> THEN <<start>>
    ELSE <<start>> \o OffsetsOf(start + Head(widths), Tail(widths))

ListColumn(name, leaf, start, widths, ov, p, lv) ==
    LET offs == Buf(OffsetsOf(start, widths))
        n    == offs[Len(widths)]
    IN  Column(name, 1, leaf, Len(widths), <<offs>>, <<ov>>,
               LeafValues(leaf, p, n), LeafValidity(lv, n))

PrimColumn(name, leaf, n, validity, p) ==
    Column(name, 0, leaf, n, <<>>, <<>>, LeafValues(leaf, p, n), validity)

\* A column of lists of lists: outer row i holds counts[i] inner lists, inner
\* list j holds widths[j] leaves.
NestedColumn(name, leaf, counts, widths, ov, iv, p, lv) ==
    LET outer == Buf(OffsetsOf(0, counts))
        inner == Buf(OffsetsOf(0, widths))
        n     == inner[Len(widths)]
    IN  Column(name, 2, leaf, Len(counts), <<outer, inner>>, <<ov, iv>>,
               LeafValues(leaf, p, n), LeafValidity(lv, n))

\* Operands of every shape: row counts, widths, slice starts, outer nulls.
ShapeParams ==
    UNION {{"list"} \X (0..MaxStart) \X [1..n -> 0..MaxWidth] \X Bitmaps(n) : n \in 0..MaxRows}
    \cup UNION {{"prim"} \X {0} \X {[i \in 1..n |-> 1]} \X Bitmaps(n) : n \in 0..MaxRows}

ShapeColumn(name, s) ==
    IF s[1] = "list" THEN ListColumn(name, "Int8", s[2], s[3], s[4], 1, FALSE)
    ELSE PrimColumn(name, "Int8", Len(s[3]), s[4], 1)

\* Operands of every leaf content: dtype, values with zeros, leaf nulls.
LeafParams == {"list", "prim"} \X Dtypes \X {0, MaxStart} \X (1..MaxRows) \X {1, 2} \X BOOLEAN

LeafColumn(name, s) ==
    IF s[1] = "list"
    THEN ListColumn(name, s[2], s[3], [i \in 1..s[4] |-> MaxWidth], NoBitmap, s[5], s[6])
    ELSE PrimColumn(name, s[2], s[4], LeafValidity(s[6], s[4]), s[5])

\* Nested operands: the inner lists of outer row i are counts[i] many, of
\* widths 1, 2, .., MaxWidth, 1, ..; the inner validity, when present, nulls
\* every second inner list.
NestedParams ==
    UNION {[1..n -> 0..MaxWidth] \X Bitmaps(n) \X BOOLEAN : n \in 1..MaxRows}

RECURSIVE Sum(_)
Sum(s) == IF s = <<>> THEN 0 ELSE Head(s) + Sum(Tail(s))

NestedOperand(name, s, p) ==
    NestedColumn(name, "Int8", s[1], [j \in 1..Sum(s[1]) |-> 1 + ((j - 1) % MaxWidth)],
                 s[2], LeafValidity(s[3], Sum(s[1])), p, FALSE)

PrimParams == {0} \X (1..MaxRows) \X BOOLEAN

\* Lists with null rows and null leaves at once.
MaskedParams == UNION {[1..n -> 1..MaxWidth] \X Bitmaps(n) : n \in 1..MaxRows}

MaskedOperand(name, s, p) == ListColumn(name, "Int8", 0, s[1], s[2], p, TRUE)

PrimOperand(name, s) == PrimColumn(name, "Int8", s[2], LeafValidity(s[3], s[2]), 2)

-----------------------------------------------------------------------------
(* Results of execute: a column, an error or a panic.                      *)

\* A column with the length of its leaf buffer.
OkResult(col, n_values) == [kind |-> "ok", col |-> col, n_values |-> n_values]

InvalidOperation == [kind |-> "err", err |-> "InvalidOperation"]

\* "cannot {op} two columns of differing lengths: {l} != {r}"
LengthMismatch(l, r) ==
    [kind |-> "err", err |-> "ShapeMismatch", what |-> "lengths", lhs_len |-> l, rhs_len |-> r]

\* "list lengths differed at index {index}: {lhs_len} != {rhs_len}"
WidthMismatch(index, l, r) ==
    [kind |-> "err", err |-> "ShapeMismatch", what |-> "widths", index |-> index,
     lhs_len |-> l, rhs_len |-> r]

Panic(msg) == [kind |-> "panic", msg |-> msg]

NoResult == [kind |-> "none"]

NoHelper == [kind |-> "none"]

-----------------------------------------------------------------------------
(* NumericListOp::try_get_leaf_supertype *)

\* try_get_supertype on the leaf dtypes of the model.
try_get_supertype(l, r) == IF l = r THEN l ELSE "Float64"

\* try_get_leaf_supertype without the promotion of Div.
try_get_supertype_for_any_op(o, prim_dtype_lhs, prim_dtype_rhs) ==
    try_get_supertype(prim_dtype_lhs, prim_dtype_rhs)

try_get_leaf_supertype(o, prim_dtype_lhs, prim_dtype_rhs) ==
    LET dtype == try_get_supertype(prim_dtype_lhs, prim_dtype_rhs)
    IN  IF o = "Div"
        THEN IF is_float(dtype) THEN dtype ELSE "Float64"
        ELSE dtype

\* ListChunked::full_null_with_dtype(name, length, inner of List(depth, leaf))
full_null_with_dtype(name, length, depth, leaf) ==
    Column(name, depth, leaf, length,
           [k \in 1..depth |-> IF k = 1 THEN new_with_value(0, length + 1)
                                        ELSE new_with_value(0, 1)],
           [k \in 1..depth |-> IF k = 1 THEN SomeBitmap(new_with_value(FALSE, length))
                                        ELSE NoBitmap],
           EmptyBuf, NoBitmap)

(* BinaryListNumericOpHelper::try_new *)

\* The shape classification: the application type, or "Invalid".
\* ApplyTypeOf taking two lists of any depth as list<->list.
ApplyTypeOfAnyDepth(l, r) ==
    CASE l.depth >= 1 /\ r.depth >= 1 -> "ListToList"
      [] l.depth >= 1 /\ r.depth = 0 -> "ListToPrimitive"
      [] l.depth = 0 /\ r.depth >= 1 -> "PrimitiveToList"
      [] OTHER -> "Invalid"

ApplyTypeOf(l, r) ==
    CASE l.depth >= 1 /\ r.depth >= 1 ->
            IF l.depth = 1 /\ r.depth = 1 THEN "ListToList" ELSE "Invalid"
      [] l.depth >= 1 /\ r.depth = 0 -> "ListToPrimitive"
      [] l.depth = 0 /\ r.depth >= 1 -> "PrimitiveToList"
      [] OTHER -> "Invalid"

\* The length classification: the broadcast mode, or "Mismatch".
BroadcastOf(len_lhs, len_rhs) ==
    CASE len_lhs = len_rhs -> "NoBroadcast"
      [] len_lhs # len_rhs /\ len_lhs = 1 -> "Left"
      [] len_lhs # len_rhs /\ len_lhs # 1 /\ len_rhs = 1 -> "Right"
      [] OTHER -> "Mismatch"

\* OutputLenOf always taking the length of the lhs.
OutputLenOfLhs(len_lhs, len_rhs) == len_lhs

\* output_len: the length of the side that is not broadcast.
OutputLenOf(len_lhs, len_rhs) ==
    IF len_lhs # len_rhs /\ len_lhs = 1 THEN len_rhs ELSE len_lhs

\* ShortCircuit for a null unit operand of either kind, list or primitive.
ShortCircuitAnyNullUnit(op_apply_type, output_len, len_lhs, len_rhs, validity_lhs, validity_rhs) ==
    \/ output_len = 0
    \/ len_lhs = 1 /\ validity_lhs.some /\ ~validity_lhs.bits[0]
    \/ len_rhs = 1 /\ validity_rhs.some /\ ~validity_rhs.bits[0]

\* ShortCircuit without the test of a unit rhs.
ShortCircuitLhsOnly(op_apply_type, output_len, len_lhs, len_rhs, validity_lhs, validity_rhs) ==
    \/ output_len = 0
    \/ /\ len_lhs = 1
       /\ op_apply_type \in {"ListToList", "ListToPrimitive"}
       /\ validity_lhs.some /\ ~validity_lhs.bits[0]

\* The short-circuit test: nothing to compute, or a unit list side that is null.
ShortCircuit(op_apply_type, output_len, len_lhs, len_rhs, validity_lhs, validity_rhs) ==
    \/ output_len = 0
    \/ /\ len_lhs = 1
       /\ op_apply_type \in {"ListToList", "ListToPrimitive"}
       /\ validity_lhs.some /\ ~validity_lhs.bits[0]
    \/ /\ len_rhs = 1
       /\ op_apply_type \in {"ListToList", "PrimitiveToList"}
       /\ validity_rhs.some /\ ~validity_rhs.bits[0]

\* OuterValidity without the arm of a list on the rhs alone.
OuterValidityOfLhsLists(op_apply_type, broadcast, output_len, validity_lhs, validity_rhs) ==
    LET v == CASE op_apply_type = "ListToList" /\ broadcast = "NoBroadcast" ->
                    combine_validities_and(validity_lhs, validity_rhs)
               [] /\ ~(op_apply_type = "ListToList" /\ broadcast = "NoBroadcast")
                  /\ op_apply_type \in {"ListToList", "ListToPrimitive"}
                  /\ broadcast \in {"NoBroadcast", "Right"} -> validity_lhs
               [] /\ op_apply_type = "ListToList" /\ broadcast = "Left" -> validity_rhs
               [] OTHER -> NoBitmap
    IN  IF v.some THEN v.bits ELSE new_with_value(TRUE, output_len)

\* OuterValidity taking the validity of the lhs alone for two lists.
OuterValidityLhsOnly(op_apply_type, broadcast, output_len, validity_lhs, validity_rhs) ==
    LET v == CASE op_apply_type \in {"ListToList", "ListToPrimitive"}
                  /\ broadcast \in {"NoBroadcast", "Right"} -> validity_lhs
               [] /\ ~(op_apply_type \in {"ListToList", "ListToPrimitive"}
                       /\ broadcast \in {"NoBroadcast", "Right"})
                  /\ op_apply_type \in {"ListToList", "PrimitiveToList"}
                  /\ broadcast \in {"NoBroadcast", "Left"} -> validity_rhs
               [] OTHER -> NoBitmap
    IN  IF v.some THEN v.bits ELSE new_with_value(TRUE, output_len)

\* The outer validity: the validity of the non-broadcasting lists.
OuterValidity(op_apply_type, broadcast, output_len, validity_lhs, validity_rhs) ==
    LET v == CASE op_apply_type = "ListToList" /\ broadcast = "NoBroadcast" ->
                    combine_validities_and(validity_lhs, validity_rhs)
               [] /\ ~(op_apply_type = "ListToList" /\ broadcast = "NoBroadcast")
                  /\ op_apply_type \in {"ListToList", "ListToPrimitive"}
                  /\ broadcast \in {"NoBroadcast", "Right"} -> validity_lhs
               [] /\ ~(op_apply_type \in {"ListToList", "ListToPrimitive"}
                       /\ broadcast \in {"NoBroadcast", "Right"})
                  /\ op_apply_type \in {"ListToList", "PrimitiveToList"}
                  /\ broadcast \in {"NoBroadcast", "Left"} -> validity_rhs
               [] OTHER -> NoBitmap
    IN  IF v.some THEN v.bits ELSE new_with_value(TRUE, output_len)

try_new(o, l, r) ==
    LET output_primitive_dtype == try_get_leaf_supertype(o, l.leaf, r.leaf)
        op_apply_type == ApplyTypeOf(l, r)
        output_depth  == IF op_apply_type = "PrimitiveToList" THEN r.depth ELSE l.depth
        broadcast     == BroadcastOf(l.len, r.len)
        output_len    == OutputLenOf(l.len, r.len)
        validity_lhs  == rechunk_validity(l)
        validity_rhs  == rechunk_validity(r)
    IN  IF op_apply_type = "Invalid" THEN InvalidOperation
        ELSE IF broadcast = "Mismatch" THEN LengthMismatch(l.len, r.len)
        ELSE IF ShortCircuit(op_apply_type, output_len, l.len, r.len, validity_lhs, validity_rhs)
        THEN [kind |-> "premature",
              col |-> full_null_with_dtype(l.name, output_len, output_depth,
                                           output_primitive_dtype)]
        ELSE [kind |-> "helper",
              op |-> o,
              output_name |-> l.name,
              op_apply_type |-> op_apply_type,
              broadcast |-> broadcast,
              output_depth |-> output_depth,
              output_primitive_dtype |-> output_primitive_dtype,
              output_len |-> output_len,
              outer_validity |-> OuterValidity(op_apply_type, broadcast, output_len,
                                               validity_lhs, validity_rhs),
              data_lhs |-> SideData(l),
              data_rhs |-> SideData(r),
              list_to_prim_lhs |-> [some |-> FALSE],
              swapped |-> FALSE]

-----------------------------------------------------------------------------
(* The leaf kernels of _finish_impl.  A leaf array is its values, its      *)
(* optional validity and its length; the values of a freshly allocated     *)
(* output vector are defined at the written indices only.                  *)

Array(values, validity, len) == [values |-> values, validity |-> validity, len |-> len]

Min(a, b) == IF a < b THEN a ELSE b

NonCommutative == {"Sub", "Div", "Rem", "FloorDiv"}

\* with_match_numeric_list_op without the swapped flag.
with_match_unswapped(o, swapped, T, l, r) == PlOp(o, T, l, r)

\* with_match_numeric_list_op: $OP(l, r) for the op and the swapped flag.
with_match_numeric_list_op(o, swapped, T, l, r) ==
    IF swapped /\ o \in NonCommutative THEN PlOp(o, T, r, l) ELSE PlOp(o, T, l, r)

\* PrimitiveArray::tot_ne_kernel_broadcast(&zero)
tot_ne_kernel_broadcast(arr, z) == [i \in DOMAIN arr.values |-> arr.values[i] # z]

\* prepare_numeric_op_side_validities without the test for a float type.
prepare_also_floats(o, T, arr_lhs, arr_rhs, swapped) ==
    IF o \in {"Div", "Rem", "FloorDiv"}
    THEN LET target == IF swapped THEN arr_lhs ELSE arr_rhs
             ne_0 == tot_ne_kernel_broadcast(target, Zero(T))
             validity == combine_validities_and(target.validity, SomeBitmap(ne_0))
             masked == [target EXCEPT !.validity = validity]
         IN  IF swapped THEN <<masked, arr_rhs>> ELSE <<arr_lhs, masked>>
    ELSE <<arr_lhs, arr_rhs>>

\* prepare_numeric_op_side_validities masking the rhs whatever swapped is.
prepare_unswapped(o, T, arr_lhs, arr_rhs, swapped) ==
    IF ~is_float(T) /\ o \in {"Div", "Rem", "FloorDiv"}
    THEN LET ne_0 == tot_ne_kernel_broadcast(arr_rhs, Zero(T))
             validity == combine_validities_and(arr_rhs.validity, SomeBitmap(ne_0))
         IN  <<arr_lhs, [arr_rhs EXCEPT !.validity = validity]>>
    ELSE <<arr_lhs, arr_rhs>>

\* NumericListOp::prepare_numeric_op_side_validities: <<lhs, rhs>> afterwards.
prepare_numeric_op_side_validities(o, T, arr_lhs, arr_rhs, swapped) ==
    IF ~is_float(T) /\ o \in {"Div", "Rem", "FloorDiv"}
    THEN LET target == IF swapped THEN arr_lhs ELSE arr_rhs
             ne_0 == tot_ne_kernel_broadcast(target, Zero(T))
             validity == combine_validities_and(target.validity, SomeBitmap(ne_0))
             masked == [target EXCEPT !.validity = validity]
         IN  IF swapped THEN <<masked, arr_rhs>> ELSE <<arr_lhs, masked>>
    ELSE <<arr_lhs, arr_rhs>>

\* check_mismatch_pos letting every mismatch_pos pass.
check_mismatch_pos_ignored(mismatch_pos, offsets_lhs, offsets_rhs) == NoResult

\* check_mismatch_pos: the error, or NoResult.
check_mismatch_pos(mismatch_pos, offsets_lhs, offsets_rhs) ==
    IF mismatch_pos < len_proxy(offsets_lhs)
    THEN LET len_r == length_at(offsets_rhs,
                                IF len_proxy(offsets_rhs) = 1 THEN 0 ELSE mismatch_pos)
         IN  WidthMismatch(mismatch_pos, length_at(offsets_lhs, mismatch_pos), len_r)
    ELSE NoResult

\* RowWrites storing at the rhs index r_idx instead of l_idx.
RowWritesAtRhsIndex(o, swapped, T, arr_lhs, arr_rhs, lhs_start, rhs_start, len) ==
    [r_idx \in rhs_start..(rhs_start + len - 1) |->
        with_match_numeric_list_op(o, swapped, T, arr_lhs.values[r_idx - rhs_start + lhs_start],
                                   arr_rhs.values[r_idx])]

\* The writes of one row: op(lhs[lhs_start + j], rhs[rhs_start + j]) at lhs_start + j.
RowWrites(o, swapped, T, arr_lhs, arr_rhs, lhs_start, rhs_start, len) ==
    [l_idx \in lhs_start..(lhs_start + len - 1) |->
        with_match_numeric_list_op(o, swapped, T, arr_lhs.values[l_idx],
                                   arr_rhs.values[l_idx - lhs_start + rhs_start])]

\* NoBroadcastMismatchPos counting every null row, also after a mismatch.
NoBroadcastMismatchPosNullRows(mismatch_pos, i, lhs_len, rhs_len, outer_validity) ==
    IF ((lhs_len = rhs_len) /\ (mismatch_pos = i)) \/ ~outer_validity[i]
    THEN mismatch_pos + 1
    ELSE mismatch_pos

\* The mismatch counter of (ListToList, NoBroadcast) after row i.
NoBroadcastMismatchPos(mismatch_pos, i, lhs_len, rhs_len, outer_validity) ==
    IF (mismatch_pos = i) /\ ((lhs_len = rhs_len) \/ ~outer_validity[i])
    THEN mismatch_pos + 1
    ELSE mismatch_pos

RECURSIVE ListToListNoBroadcastLoop(_, _, _, _)
\* The loop of (ListToList, NoBroadcast) from row i: <<out_vec, mismatch_pos>>.
ListToListNoBroadcastLoop(k, i, out_vec, mismatch_pos) ==
    IF i >= Min(len_proxy(k.offsets_lhs), len_proxy(k.offsets_rhs))
    THEN <<out_vec, mismatch_pos>>
    ELSE LET lhs_start == start_at(k.offsets_lhs, i)
             lhs_len   == length_at(k.offsets_lhs, i)
             rhs_start == start_at(k.offsets_rhs, i)
             rhs_len   == length_at(k.offsets_rhs, i)
             len       == Min(lhs_len, rhs_len)
         IN  ListToListNoBroadcastLoop(k, i + 1,
                RowWrites(k.op, k.swapped, k.T, k.arr_lhs, k.arr_rhs,
                          lhs_start, rhs_start, len) @@ out_vec,
                NoBroadcastMismatchPos(mismatch_pos, i, lhs_len, rhs_len,
                                       k.outer_validity))

\* BroadcastRightMismatchPos without the exemption of null rows.
BroadcastRightMismatchPosNoNulls(mismatch_pos, i, lhs_len, width, outer_validity) ==
    IF (lhs_len = width) /\ (mismatch_pos = i)
    THEN mismatch_pos + 1
    ELSE mismatch_pos

\* The mismatch counter of (ListToList, Right) after row i.
BroadcastRightMismatchPos(mismatch_pos, i, lhs_len, width, outer_validity) ==
    IF ((lhs_len = width) /\ (mismatch_pos = i)) \/ ~outer_validity[i]
    THEN mismatch_pos + 1
    ELSE mismatch_pos

RECURSIVE ListToListBroadcastRightLoop(_, _, _, _)
\* The loop of (ListToList, Right) from row i: <<out_vec, mismatch_pos>>.
ListToListBroadcastRightLoop(k, i, out_vec, mismatch_pos) ==
    IF i >= len_proxy(k.offsets_lhs)
    THEN <<out_vec, mismatch_pos>>
    ELSE LET lhs_start == start_at(k.offsets_lhs, i)
             lhs_len   == length_at(k.offsets_lhs, i)
             rhs_start == k.offsets_rhs[0]
             width     == range(k.offsets_rhs)
             len       == Min(lhs_len, width)
         IN  ListToListBroadcastRightLoop(k, i + 1,
                RowWrites(k.op, k.swapped, k.T, k.arr_lhs, k.arr_rhs,
                          lhs_start, rhs_start, len) @@ out_vec,
                BroadcastRightMismatchPos(mismatch_pos, i, lhs_len, width,
                                          k.outer_validity))

\* RowValidity storing the rhs bit instead of the conjunction.
RowValidityRhsOnly(validity_out, validity_rhs, lhs_start, rhs_start, len) ==
    [l_idx \in DOMAIN validity_out |->
        IF l_idx \in lhs_start..(lhs_start + len - 1)
        THEN validity_rhs.bits[l_idx - lhs_start + rhs_start]
        ELSE validity_out[l_idx]]

\* validity_out after one row of the list<->list validity loops.
RowValidity(validity_out, validity_rhs, lhs_start, rhs_start, len) ==
    [l_idx \in DOMAIN validity_out |->
        IF l_idx \in lhs_start..(lhs_start + len - 1)
        THEN validity_out[l_idx] /\ validity_rhs.bits[l_idx - lhs_start + rhs_start]
        ELSE validity_out[l_idx]]

RECURSIVE NoBroadcastValidityLoop(_, _, _, _, _)
\* The validity loop of (ListToList, NoBroadcast) from row i.
NoBroadcastValidityLoop(offsets_lhs, offsets_rhs, validity_rhs, i, validity_out) ==
    IF i >= Min(len_proxy(offsets_lhs), len_proxy(offsets_rhs))
    THEN validity_out
    ELSE LET len == Min(length_at(offsets_lhs, i), length_at(offsets_rhs, i))
         IN  NoBroadcastValidityLoop(offsets_lhs, offsets_rhs, validity_rhs, i + 1,
                RowValidity(validity_out, validity_rhs, start_at(offsets_lhs, i),
                            start_at(offsets_rhs, i), len))

combine_validities_list_to_list_no_broadcast(offsets_lhs, offsets_rhs, validity_lhs, validity_rhs, len_lhs) ==
    CASE validity_lhs.some /\ ~validity_rhs.some -> validity_lhs
      [] ~validity_lhs.some /\ ~validity_rhs.some -> NoBitmap
      [] OTHER ->
            SomeBitmap(NoBroadcastValidityLoop(offsets_lhs, offsets_rhs, validity_rhs, 0,
                IF validity_lhs.some THEN validity_lhs.bits
                ELSE new_with_value(TRUE, len_lhs)))

RECURSIVE BroadcastRightValidityLoop(_, _, _, _, _, _)
\* The validity loop of (ListToList, Right) from row i.
BroadcastRightValidityLoop(offsets_lhs, validity_rhs, width, rhs_start, i, validity_out) ==
    IF i >= len_proxy(offsets_lhs)
    THEN validity_out
    ELSE LET len == Min(length_at(offsets_lhs, i), width)
         IN  BroadcastRightValidityLoop(offsets_lhs, validity_rhs, width, rhs_start, i + 1,
                RowValidity(validity_out, validity_rhs, start_at(offsets_lhs, i),
                            rhs_start, len))

combine_validities_list_to_list_broadcast_right(offsets_lhs, validity_lhs, validity_rhs, len_lhs, width, rhs_start) ==
    CASE validity_lhs.some /\ ~validity_rhs.some -> validity_lhs
      [] ~validity_lhs.some /\ ~validity_rhs.some -> NoBitmap
      [] OTHER ->
            SomeBitmap(BroadcastRightValidityLoop(offsets_lhs, validity_rhs, width, rhs_start, 0,
                IF validity_lhs.some THEN validity_lhs.bits
                ELSE new_with_value(TRUE, len_lhs)))

-----------------------------------------------------------------------------
(* List <-> primitive *)

\* The writes of one outer row: op(lhs[l_idx], r) for every leaf the row owns.
LeafRangeWrites(o, swapped, T, values, r, l_range) ==
    [l_idx \in l_range[1]..(l_range[2] - 1) |->
        with_match_numeric_list_op(o, swapped, T, values[l_idx], r)]

RECURSIVE ListToPrimitiveLoop(_, _, _)
\* The loop of (ListToPrimitive, NoBroadcast) from outer row i: the fresh out_vec.
ListToPrimitiveLoop(k, i, out_vec) ==
    IF i >= len_proxy(k.offsets_lhs[1])
    THEN out_vec
    ELSE ListToPrimitiveLoop(k, i + 1,
            LeafRangeWrites(k.op, k.swapped, k.T, k.arr_lhs.values, k.arr_rhs.values[i],
                            leaf_range(k.offsets_lhs, i)) @@ out_vec)

RECURSIVE ListToPrimitiveLoopInPlace(_, _, _)
\* The same loop storing into the materialized lhs: *l = op(*l, r).
ListToPrimitiveLoopInPlace(k, i, arr_lhs_mut_slice) ==
    IF i >= len_proxy(k.offsets_lhs[1])
    THEN arr_lhs_mut_slice
    ELSE ListToPrimitiveLoopInPlace(k, i + 1,
            LeafRangeWrites(k.op, k.swapped, k.T, arr_lhs_mut_slice, k.arr_rhs.values[i],
                            leaf_range(k.offsets_lhs, i)) @@ arr_lhs_mut_slice)

RECURSIVE ListToPrimitiveValidityLoop(_, _, _, _)
ListToPrimitiveValidityLoop(offsets_lhs, validity_rhs, i, validity_out) ==
    IF i >= len_proxy(offsets_lhs[1])
    THEN validity_out
    ELSE LET l_range == leaf_range(offsets_lhs, i)
             r_valid == validity_rhs.bits[i]
         IN  ListToPrimitiveValidityLoop(offsets_lhs, validity_rhs, i + 1,
                [l_idx \in DOMAIN validity_out |->
                    IF l_idx \in l_range[1]..(l_range[2] - 1)
                    THEN validity_out[l_idx] /\ r_valid
                    ELSE validity_out[l_idx]])

combine_validities_list_to_primitive_no_broadcast(offsets_lhs, validity_lhs, validity_rhs, len_lhs) ==
    CASE validity_lhs.some /\ ~validity_rhs.some -> validity_lhs
      [] ~validity_lhs.some /\ ~validity_rhs.some -> NoBitmap
      [] OTHER ->
            SomeBitmap(ListToPrimitiveValidityLoop(offsets_lhs, validity_rhs, 0,
                IF validity_lhs.some THEN validity_lhs.bits
                ELSE new_with_value(TRUE, len_lhs)))

\* ArithmeticKernel's array-by-scalar kernels: on integers a zero denominator
\* (the scalar, or an element when the scalar is on the left) gives a null.
apply_array_to_scalar(o, T, arr_lhs, r, swapped) ==
    LET div_op == ~is_float(T) /\ o \in {"Div", "Rem", "FloorDiv"}
        values == [i \in DOMAIN arr_lhs.values |->
                      with_match_numeric_list_op(o, swapped, T, arr_lhs.values[i], r)]
        validity ==
            CASE div_op /\ ~swapped /\ r = Zero(T) ->
                    SomeBitmap(new_with_value(FALSE, arr_lhs.len))
              [] div_op /\ swapped ->
                    combine_validities_and(arr_lhs.validity,
                        SomeBitmap(tot_ne_kernel_broadcast(arr_lhs, Zero(T))))
              [] OTHER -> arr_lhs.validity
    IN  Array(values, validity, arr_lhs.len)

-----------------------------------------------------------------------------
(* Broadcast materialization and result assembly *)

RECURSIVE NewFromIndexLevels(_, _, _, _, _, _)
\* ListChunked::new_from_index(0, n), levels k and deeper: the rows st..en-1 of
\* level k are those under row 0; they are rebased to 0 and repeated n times.
NewFromIndexLevels(offsets, validities, k, st, en, n) ==
    IF k > Len(offsets) THEN [offsets |-> <<>>, validities |-> <<>>, st |-> st, en |-> en]
    ELSE LET m    == en - st
             sub  == [j \in 0..m |-> offsets[k][st + j] - offsets[k][st]]
             offs == [j \in 0..(n * m) |->
                         IF m = 0 THEN 0 ELSE (j \div m) * sub[m] + sub[j % m]]
             vals == IF validities[k].some
                     THEN SomeBitmap([j \in 0..(n * m - 1) |-> validities[k].bits[st + (j % m)]])
                     ELSE NoBitmap
             rest == NewFromIndexLevels(offsets, validities, k + 1,
                                        offsets[k][st], offsets[k][en], n)
         IN  [offsets |-> <<offs>> \o rest.offsets, validities |-> <<vals>> \o rest.validities,
              st |-> rest.st, en |-> rest.en]

\* ca.cast(leaf dtype).new_from_index(0, n).rechunk() of a list column.
new_from_index(s, dtype, n) ==
    LET lv == NewFromIndexLevels(s.offsets, s.validities, 1, 0, 1, n)
        w  == lv.en - lv.st
    IN  Column(s.name, s.depth, dtype, n, lv.offsets, lv.validities,
               [j \in 0..(n * w - 1) |-> CastValue(s.leaf, dtype, s.values[lv.st + (j % w)])],
               IF s.validity.some
               THEN SomeBitmap([j \in 0..(n * w - 1) |-> s.validity.bits[lv.st + (j % w)]])
               ELSE NoBitmap)

LeafFullLen(offsets) ==
    LET r == leaf_full_start_end(offsets) IN r[2] - r[1]

\* materialize_broadcasted_list: the new side data and (leaf array, n_values),
\* or the assertion that fails.
materialize_broadcasted_list(side_data, output_len, output_primitive_dtype) ==
    LET s == side_data.series
        expected_n_values == output_len * LeafFullLen(s.offsets)
        ca == new_from_index(s, output_primitive_dtype, output_len)
        n_values == LeafFullLen(ca.offsets)
    IN  IF s.len # 1 THEN Panic("assert_eq!(s.len(), 1)")
        ELSE IF ~(output_len > 1) THEN Panic("assert!(output_len > 1)")
        ELSE IF n_values # expected_n_values THEN Panic("assert_eq!(n_values, expected_n_values)")
        ELSE [kind |-> "ok",
              side_data |-> [offsets |-> ca.offsets, validities |-> ca.validities,
                             series |-> DefaultSeries],
              arr |-> Array(ca.values, ca.validity, BufLen(ca.values)),
              n_values |-> n_values]

\* finish_offsets_and_validities naming the result after the series of data_lhs.
finish_named_after_data_lhs(h, leaf_array, offsets, validities) ==
    IF offsets = <<>> THEN Panic("assert!(!offsets.is_empty())")
    ELSE IF Len(offsets) # Len(validities)
    THEN Panic("assert_eq!(offsets.len(), validities.len())")
    ELSE OkResult(Column(h.data_lhs.series.name, Len(offsets), h.output_primitive_dtype,
                         len_proxy(offsets[1]), offsets,
                         [k \in 1..Len(offsets) |->
                             IF k = 1 THEN SomeBitmap(h.outer_validity) ELSE validities[k]],
                         leaf_array.values, leaf_array.validity),
                  leaf_array.len)

\* finish_offsets_and_validities dropping the validities of the inner levels.
finish_without_inner_validities(h, leaf_array, offsets, validities) ==
    IF offsets = <<>> THEN Panic("assert!(!offsets.is_empty())")
    ELSE IF Len(offsets) # Len(validities)
    THEN Panic("assert_eq!(offsets.len(), validities.len())")
    ELSE OkResult(Column(h.output_name, Len(offsets), h.output_primitive_dtype,
                         len_proxy(offsets[1]), offsets,
                         [k \in 1..Len(offsets) |->
                             IF k = 1 THEN SomeBitmap(h.outer_validity) ELSE NoBitmap],
                         leaf_array.values, leaf_array.validity),
                  leaf_array.len)

\* finish_offsets_and_validities: the result column; the outermost validity
\* is the outer validity of try_new.
finish_offsets_and_validities(h, leaf_array, offsets, validities) ==
    IF offsets = <<>> THEN Panic("assert!(!offsets.is_empty())")
    ELSE IF Len(offsets) # Len(validities)
    THEN Panic("assert_eq!(offsets.len(), validities.len())")
    ELSE OkResult(Column(h.output_name, Len(offsets), h.output_primitive_dtype,
                         len_proxy(offsets[1]), offsets,
                         [k \in 1..Len(offsets) |->
                             IF k = 1 THEN SomeBitmap(h.outer_validity) ELSE validities[k]],
                         leaf_array.values, leaf_array.validity),
                  leaf_array.len)

-----------------------------------------------------------------------------
(* _finish_impl: the physical kernels *)

\* What the loops read: the op, the leaf arrays and the offsets of both sides.
KernelInput(h, arr_lhs, arr_rhs) ==
    [op |-> h.op, swapped |-> h.swapped, T |-> h.output_primitive_dtype,
     outer_validity |-> h.outer_validity, arr_lhs |-> arr_lhs, arr_rhs |-> arr_rhs,
     offsets_lhs |-> h.data_lhs.offsets[1], offsets_rhs |-> h.data_rhs.offsets[1]]

\* (ListToList, NoBroadcast)
ListToListNoBroadcast(h, arr_lhs, arr_rhs) ==
    LET k == KernelInput(h, arr_lhs, arr_rhs)
        n_values == arr_lhs.len
        loop == ListToListNoBroadcastLoop(k, 0, EmptyBuf, 0)
        mismatch == check_mismatch_pos(loop[2], k.offsets_lhs, k.offsets_rhs)
        leaf_validity == combine_validities_list_to_list_no_broadcast(
                            k.offsets_lhs, k.offsets_rhs, arr_lhs.validity, arr_rhs.validity,
                            arr_lhs.len)
    IN  IF len_proxy(k.offsets_lhs) # len_proxy(k.offsets_rhs)
        THEN Panic("assert_eq!(offsets_lhs.len_proxy(), offsets_rhs.len_proxy())")
        ELSE IF mismatch.kind = "err" THEN mismatch
        ELSE IF Len(h.data_lhs.offsets) # 1 THEN Panic("assert_eq!(offsets.len(), 1)")
        ELSE finish_offsets_and_validities(h, Array(loop[1], leaf_validity, n_values),
                                           h.data_lhs.offsets, h.data_lhs.validities)

\* (ListToList, Right)
ListToListBroadcastRight(h, arr_lhs, arr_rhs) ==
    LET k == KernelInput(h, arr_lhs, arr_rhs)
        n_values == arr_lhs.len
        rhs_start == k.offsets_rhs[0]
        width == range(k.offsets_rhs)
        loop == ListToListBroadcastRightLoop(k, 0, EmptyBuf, 0)
        mismatch == check_mismatch_pos(loop[2], k.offsets_lhs, k.offsets_rhs)
        leaf_validity == combine_validities_list_to_list_broadcast_right(
                            k.offsets_lhs, arr_lhs.validity, arr_rhs.validity,
                            arr_lhs.len, width, rhs_start)
    IN  IF len_proxy(k.offsets_rhs) # 1 THEN Panic("assert_eq!(offsets_rhs.len_proxy(), 1)")
        ELSE IF mismatch.kind = "err" THEN mismatch
        ELSE IF Len(h.data_lhs.offsets) # 1 THEN Panic("assert_eq!(offsets.len(), 1)")
        ELSE finish_offsets_and_validities(h, Array(loop[1], leaf_validity, n_values),
                                           h.data_lhs.offsets, h.data_lhs.validities)

\* What the list<->primitive loops read: every level of the lhs offsets.
LeafKernelInput(h, arr_lhs, arr_rhs) ==
    [op |-> h.op, swapped |-> h.swapped, T |-> h.output_primitive_dtype,
     arr_lhs |-> arr_lhs, arr_rhs |-> arr_rhs, offsets_lhs |-> h.data_lhs.offsets]

\* (ListToPrimitive, NoBroadcast) into a fresh output vector
ListToPrimitiveNoBroadcast(h, arr_lhs, arr_rhs) ==
    LET k == LeafKernelInput(h, arr_lhs, arr_rhs)
        out_vec == ListToPrimitiveLoop(k, 0, EmptyBuf)
        leaf_validity == combine_validities_list_to_primitive_no_broadcast(
                            k.offsets_lhs, arr_lhs.validity, arr_rhs.validity, arr_lhs.len)
    IN  finish_offsets_and_validities(h, Array(out_vec, leaf_validity, arr_lhs.len),
                                      h.data_lhs.offsets, h.data_lhs.validities)

\* (ListToPrimitive, NoBroadcast) in place, the lhs being the materialized unit list
ListToPrimitiveInPlace(h, arr_rhs0) ==
    LET n_values == h.list_to_prim_lhs.n_values
        prepared == prepare_numeric_op_side_validities(h.op, h.output_primitive_dtype,
                        h.list_to_prim_lhs.arr, arr_rhs0, h.swapped)
        arr_lhs == prepared[1]
        arr_rhs == prepared[2]
        k == LeafKernelInput(h, arr_lhs, arr_rhs)
        values == ListToPrimitiveLoopInPlace(k, 0, arr_lhs.values)
        leaf_validity == combine_validities_list_to_primitive_no_broadcast(
                            k.offsets_lhs, arr_lhs.validity, arr_rhs.validity, arr_lhs.len)
    IN  IF BufLen(arr_lhs.values) # n_values
        THEN Panic("assert_eq!(arr_lhs_mut_slice.len(), n_values)")
        ELSE finish_offsets_and_validities(h, Array(values, leaf_validity, arr_lhs.len),
                                           h.data_lhs.offsets, h.data_lhs.validities)

\* (ListToPrimitive, Right): the rhs is one scalar
ListToPrimitiveBroadcastRight(h, arr_lhs, arr_rhs) ==
    IF arr_rhs.len # 1 THEN Panic("assert_eq!(arr_rhs.len(), 1)")
    ELSE IF ~BitOr1(arr_rhs.validity, 0)
    THEN finish_offsets_and_validities(h,
            Array(arr_lhs.values, SomeBitmap(new_with_value(FALSE, arr_lhs.len)), arr_lhs.len),
            h.data_lhs.offsets, h.data_lhs.validities)
    ELSE finish_offsets_and_validities(h,
            apply_array_to_scalar(h.op, h.output_primitive_dtype, arr_lhs,
                                  arr_rhs.values[0], h.swapped),
            h.data_lhs.offsets, h.data_lhs.validities)

Canonical(h) ==
    /\ h.op_apply_type \in {"ListToList", "ListToPrimitive"}
    /\ h.broadcast \in {"NoBroadcast", "Right"}

_finish_impl(h, arr_lhs0, arr_rhs0) ==
    LET skip == \/ h.op_apply_type = "ListToPrimitive" /\ h.broadcast = "Right"
                \/ h.list_to_prim_lhs.some
        prepared == IF skip THEN <<arr_lhs0, arr_rhs0>>
                    ELSE prepare_numeric_op_side_validities(h.op, h.output_primitive_dtype,
                                                            arr_lhs0, arr_rhs0, h.swapped)
        arr_lhs == prepared[1]
        arr_rhs == prepared[2]
    IN  IF /\ h.list_to_prim_lhs.some
           /\ ~(h.op_apply_type = "ListToPrimitive" /\ h.broadcast \in {"NoBroadcast", "Right"})
        THEN Panic("unreachable!()")
        ELSE IF ~Canonical(h) THEN Panic("operation was not re-written")
        ELSE CASE h.op_apply_type = "ListToList" /\ h.broadcast = "NoBroadcast" ->
                    ListToListNoBroadcast(h, arr_lhs, arr_rhs)
               [] h.op_apply_type = "ListToList" /\ h.broadcast = "Right" ->
                    ListToListBroadcastRight(h, arr_lhs, arr_rhs)
               [] h.op_apply_type = "ListToPrimitive" /\ h.broadcast = "NoBroadcast" ->
                    IF h.list_to_prim_lhs.some
                    THEN ListToPrimitiveInPlace(h, arr_rhs)
                    ELSE ListToPrimitiveNoBroadcast(h, arr_lhs, arr_rhs)
               [] h.op_apply_type = "ListToPrimitive" /\ h.broadcast = "Right" ->
                    ListToPrimitiveBroadcastRight(h, arr_lhs, arr_rhs)

_finish_impl_dispatch(h) ==
    LET prim_lhs == LeafArray(h.data_lhs.series, h.output_primitive_dtype)
        prim_rhs == LeafArray(h.data_rhs.series, h.output_primitive_dtype)
        out == _finish_impl(h,
                    Array(prim_lhs.values, prim_lhs.validity, BufLen(prim_lhs.values)),
                    Array(prim_rhs.values, prim_rhs.validity, BufLen(prim_rhs.values)))
    IN  IF out.kind = "ok" /\ out.col.len # h.output_len
        THEN Panic("assert_eq!(out.len(), output_len)")
        ELSE out

-----------------------------------------------------------------------------
(* The stores of _finish_impl: which buffer the executed arm writes leaf   *)
(* values into, at which indices, how many elements that buffer holds, and *)
(* which bitmap the validity loop writes into.                             *)

\* No store: the call ends before any loop runs.
NoStores == [values |-> "none", indices |-> {}, capacity |-> 0, validity |-> "none"]

\* The bitmap combine_validities_* stores into: l.clone().make_mut(),
\* Bitmap::new_with_value(true, len_lhs).make_mut(), or none.
ValidityStore(validity_lhs, validity_rhs) ==
    CASE validity_lhs.some /\ validity_rhs.some -> "clone"
      [] ~validity_lhs.some /\ validity_rhs.some -> "new_with_value"
      [] OTHER -> "none"

\* The stores of the arm of _finish_impl that runs on h.
Stores(h) ==
    LET prim_lhs == LeafArray(h.data_lhs.series, h.output_primitive_dtype)
        prim_rhs == LeafArray(h.data_rhs.series, h.output_primitive_dtype)
        arr_lhs0 == IF h.list_to_prim_lhs.some THEN h.list_to_prim_lhs.arr
                    ELSE Array(prim_lhs.values, prim_lhs.validity, BufLen(prim_lhs.values))
        arr_rhs0 == Array(prim_rhs.values, prim_rhs.validity, BufLen(prim_rhs.values))
        prepared == prepare_numeric_op_side_validities(h.op, h.output_primitive_dtype,
                                                       arr_lhs0, arr_rhs0, h.swapped)
        arr_lhs == prepared[1]
        arr_rhs == prepared[2]
        k == KernelInput(h, arr_lhs, arr_rhs)
        validity == ValidityStore(arr_lhs.validity, arr_rhs.validity)
    IN  IF ~Canonical(h) THEN NoStores
        ELSE CASE h.op_apply_type = "ListToList" /\ h.broadcast = "NoBroadcast" ->
                    IF len_proxy(k.offsets_lhs) # len_proxy(k.offsets_rhs) THEN NoStores
                    ELSE [values |-> "out_vec",
                          indices |-> DOMAIN ListToListNoBroadcastLoop(k, 0, EmptyBuf, 0)[1],
                          capacity |-> arr_lhs.len,
                          validity |-> validity]
               [] h.op_apply_type = "ListToList" /\ h.broadcast = "Right" ->
                    IF len_proxy(k.offsets_rhs) # 1 THEN NoStores
                    ELSE [values |-> "out_vec",
                          indices |-> DOMAIN ListToListBroadcastRightLoop(k, 0, EmptyBuf, 0)[1],
                          capacity |-> arr_lhs.len,
                          validity |-> validity]
               [] h.op_apply_type = "ListToPrimitive" /\ h.broadcast = "NoBroadcast" ->
                    LET indices == DOMAIN ListToPrimitiveLoop(
                                        LeafKernelInput(h, arr_lhs, arr_rhs), 0, EmptyBuf)
                    IN  IF ~h.list_to_prim_lhs.some
                        THEN [values |-> "out_vec", indices |-> indices,
                              capacity |-> arr_lhs.len, validity |-> validity]
                        ELSE IF BufLen(arr_lhs.values) # h.list_to_prim_lhs.n_values
                        THEN NoStores
                        ELSE [values |-> "list_to_prim_lhs", indices |-> indices,
                              capacity |-> BufLen(arr_lhs.values), validity |-> validity]
               [] h.op_apply_type = "ListToPrimitive" /\ h.broadcast = "Right" -> NoStores

-----------------------------------------------------------------------------
(* BinaryListNumericOpHelper::finish: the rewrite of each arm.  Each gives *)
(* the helper as _finish_impl_dispatch sees it, or the panic of the        *)
(* materialization.                                                        *)

\* The four physical cases run as they are.
RewriteCanonical(h) == [h EXCEPT !.swapped = FALSE]

\* (PrimitiveToList, Right): materialize the rhs unit list, then swap.
RewritePrimitiveToListRight(h) ==
    LET m == materialize_broadcasted_list(h.data_rhs, h.output_len, h.output_primitive_dtype)
    IN  IF m.kind = "panic" THEN m
        ELSE [h EXCEPT !.swapped = TRUE,
                       !.list_to_prim_lhs = [some |-> TRUE, arr |-> m.arr,
                                             n_values |-> m.n_values],
                       !.op_apply_type = "ListToPrimitive",
                       !.broadcast = "NoBroadcast",
                       !.data_lhs = m.side_data,
                       !.data_rhs = h.data_lhs]

\* (ListToList, Left): swap.
RewriteListToListLeft(h) ==
    [h EXCEPT !.swapped = TRUE,
              !.broadcast = "Right",
              !.data_lhs = h.data_rhs,
              !.data_rhs = h.data_lhs]

\* RewriteListToPrimitiveLeft without the reset of swapped.
RewriteListToPrimitiveLeftSwapped(h) ==
    LET m == materialize_broadcasted_list(h.data_lhs, h.output_len, h.output_primitive_dtype)
    IN  IF m.kind = "panic" THEN m
        ELSE [h EXCEPT !.list_to_prim_lhs = [some |-> TRUE, arr |-> m.arr,
                                             n_values |-> m.n_values],
                       !.data_lhs = m.side_data,
                       !.broadcast = "NoBroadcast",
                       !.swapped = TRUE]

\* (ListToPrimitive, Left): materialize the lhs unit list; no swap.
RewriteListToPrimitiveLeft(h) ==
    LET m == materialize_broadcasted_list(h.data_lhs, h.output_len, h.output_primitive_dtype)
    IN  IF m.kind = "panic" THEN m
        ELSE [h EXCEPT !.list_to_prim_lhs = [some |-> TRUE, arr |-> m.arr,
                                             n_values |-> m.n_values],
                       !.data_lhs = m.side_data,
                       !.broadcast = "NoBroadcast",
                       !.swapped = FALSE]

\* RewritePrimitiveToListLeft leaving the broadcast mode as it was.
RewritePrimitiveToListLeftKeepsBroadcast(h) ==
    [h EXCEPT !.swapped = TRUE,
              !.op_apply_type = "ListToPrimitive",
              !.data_lhs = h.data_rhs,
              !.data_rhs = h.data_lhs]

\* (PrimitiveToList, Left): swap.
RewritePrimitiveToListLeft(h) ==
    [h EXCEPT !.swapped = TRUE,
              !.op_apply_type = "ListToPrimitive",
              !.broadcast = "Right",
              !.data_lhs = h.data_rhs,
              !.data_rhs = h.data_lhs]

\* (PrimitiveToList, NoBroadcast): swap.
RewritePrimitiveToListNoBroadcast(h) ==
    [h EXCEPT !.swapped = TRUE,
              !.op_apply_type = "ListToPrimitive",
              !.data_lhs = h.data_rhs,
              !.data_rhs = h.data_lhs]

-----------------------------------------------------------------------------
(* Actions *)

\* The operands of one call: every shape under Add and Sub, every leaf content
\* and every nested list with a primitive under every op, nested lists with
\* nested lists, lists with null rows and null leaves.
Init ==
    /\ \/ \E o \in {"Add", "Sub"}, l \in ShapeParams, r \in ShapeParams :
            /\ op = o
            /\ lhs = ShapeColumn("a", l)
            /\ rhs = ShapeColumn("b", r)
       \/ \E o \in Ops, l \in LeafParams, r \in LeafParams :
            /\ l[1] = "prim" => l[3] = 0
            /\ r[1] = "prim" => r[3] = 0
            /\ op = o
            /\ lhs = LeafColumn("a", l)
            /\ rhs = LeafColumn("b", r)
       \/ \E o \in Ops, l \in NestedParams, r \in PrimParams, p \in {1, 2} :
            /\ op = o
            /\ \/ lhs = NestedOperand("a", l, p) /\ rhs = PrimOperand("b", r)
               \/ lhs = PrimOperand("a", r) /\ rhs = NestedOperand("b", l, p)
       \/ \E o \in {"Add"}, l \in NestedParams, r \in NestedParams :
            /\ ~l[3] /\ ~r[3]
            /\ op = o
            /\ lhs = NestedOperand("a", l, 1)
            /\ rhs = NestedOperand("b", r, 1)
       \/ \E o \in {"Add", "Rem"}, l \in MaskedParams, r \in MaskedParams :
            /\ op = o
            /\ lhs = MaskedOperand("a", l, 1)
            /\ rhs = MaskedOperand("b", r, 2)
    /\ pc = "try_new"
    /\ helper = NoHelper
    /\ result = NoResult
    /\ written = NoStores

\* execute, first half: try_new plans the call, or ends it with the
\* all-null column or an error.
TryNew ==
    /\ pc = "try_new"
    /\ LET t == try_new(op, lhs, rhs)
       IN  CASE t.kind = "helper" ->
                    /\ helper' = t
                    /\ pc' = "finish"
                    /\ UNCHANGED result
             [] t.kind = "premature" ->
                    /\ result' = OkResult(t.col, 0)
                    /\ pc' = "done"
                    /\ UNCHANGED helper
             [] OTHER ->
                    /\ result' = t
                    /\ pc' = "done"
                    /\ UNCHANGED helper
    /\ UNCHANGED <<op, lhs, rhs, written>>

\* _finish_impl_dispatch on the helper an arm of finish has rewritten.
Dispatch(h) ==
    /\ IF h.kind = "panic"
       THEN result' = h /\ UNCHANGED helper
       ELSE result' = _finish_impl_dispatch(h) /\ helper' = h
    /\ written' = IF h.kind = "panic" THEN NoStores ELSE Stores(h)
    /\ pc' = "done"
    /\ UNCHANGED <<op, lhs, rhs>>

FinishCanonical ==
    /\ pc = "finish"
    /\ helper.op_apply_type \in {"ListToList", "ListToPrimitive"}
    /\ helper.broadcast \in {"NoBroadcast", "Right"}
    /\ Dispatch(RewriteCanonical(helper))

FinishPrimitiveToListRight ==
    /\ pc = "finish"
    /\ helper.op_apply_type = "PrimitiveToList" /\ helper.broadcast = "Right"
    /\ Dispatch(RewritePrimitiveToListRight(helper))

FinishListToListLeft ==
    /\ pc = "finish"
    /\ helper.op_apply_type = "ListToList" /\ helper.broadcast = "Left"
    /\ Dispatch(RewriteListToListLeft(helper))

FinishListToPrimitiveLeft ==
    /\ pc = "finish"
    /\ helper.op_apply_type = "ListToPrimitive" /\ helper.broadcast = "Left"
    /\ Dispatch(RewriteListToPrimitiveLeft(helper))

FinishPrimitiveToListLeft ==
    /\ pc = "finish"
    /\ helper.op_apply_type = "PrimitiveToList" /\ helper.broadcast = "Left"
    /\ Dispatch(RewritePrimitiveToListLeft(helper))

FinishPrimitiveToListNoBroadcast ==
    /\ pc = "finish"
    /\ helper.op_apply_type = "PrimitiveToList" /\ helper.broadcast = "NoBroadcast"
    /\ Dispatch(RewritePrimitiveToListNoBroadcast(helper))

Finish ==
    \/ FinishCanonical
    \/ FinishPrimitiveToListRight
    \/ FinishListToListLeft
    \/ FinishListToPrimitiveLeft
    \/ FinishPrimitiveToListLeft
    \/ FinishPrimitiveToListNoBroadcast

Next == TryNew \/ Finish

Spec == Init /\ [][Next]_vars

-----------------------------------------------------------------------------
(* The logical value of a column, for stating the properties: a null, a    *)
(* leaf value, a list of values, or a slot of the output vector that was   *)
(* never written.                                                          *)

Null == <<"null">>

Unwritten == <<"unwritten">>

IsNull(v) == v[1] = "null"

LeafAt(col, l_idx) ==
    IF ~BitOr1(col.validity, l_idx) THEN Null
    ELSE IF l_idx \in DOMAIN col.values THEN <<"value", col.values[l_idx]>>
    ELSE Unwritten

RECURSIVE ValueAt(_, _, _)
\* The value of row idx of list level `level` (a leaf below the last level).
ValueAt(col, level, idx) ==
    IF level > col.depth THEN LeafAt(col, idx)
    ELSE IF ~BitOr1(col.validities[level], idx) THEN Null
    ELSE LET first == col.offsets[level][idx]
             len   == col.offsets[level][idx + 1] - first
         IN  <<"list", [j \in 1..len |-> ValueAt(col, level + 1, first + j - 1)]>>

\* The rows of a column, row i at index i + 1.
Rows(col) == [i \in 1..col.len |-> ValueAt(col, 1, i - 1)]

\* execute(o, l, r), both steps at once.
execute(o, l, r) ==
    LET t == try_new(o, l, r)
        h == CASE t.op_apply_type = "PrimitiveToList" /\ t.broadcast = "Right" ->
                    RewritePrimitiveToListRight(t)
               [] t.op_apply_type = "ListToList" /\ t.broadcast = "Left" ->
                    RewriteListToListLeft(t)
               [] t.op_apply_type = "ListToPrimitive" /\ t.broadcast = "Left" ->
                    RewriteListToPrimitiveLeft(t)
               [] t.op_apply_type = "PrimitiveToList" /\ t.broadcast = "Left" ->
                    RewritePrimitiveToListLeft(t)
               [] t.op_apply_type = "PrimitiveToList" /\ t.broadcast = "NoBroadcast" ->
                    RewritePrimitiveToListNoBroadcast(t)
               [] OTHER -> RewriteCanonical(t)
    IN  CASE t.kind = "premature" -> OkResult(t.col, 0)
          [] t.kind = "err" -> t
          [] OTHER -> IF h.kind = "panic" THEN h ELSE _finish_impl_dispatch(h)

-----------------------------------------------------------------------------
(* Properties of execute *)

Done == pc = "done"

Ok == Done /\ result.kind = "ok"

BothLists == lhs.depth = 1 /\ rhs.depth = 1

RowValid(col, i) == BitOr1(col.validities[1], i)

RowStart(col, i) == col.offsets[1][i]

RowWidth(col, i) == col.offsets[1][i + 1] - col.offsets[1][i]

\* The leaf of an operand at its leaf index, cast to the output leaf dtype.
CastLeaf(col, l_idx) == CastValue(col.leaf, result.col.leaf, col.values[l_idx])

NoWidthMismatch ==
    \A i \in 0..(lhs.len - 1) :
        RowValid(lhs, i) /\ RowValid(rhs, i) => RowWidth(lhs, i) = RowWidth(rhs, i)

(* C1: two list columns of equal row count without a width mismatch: for   *)
(* every row i that is non-null on both sides and every j < width(i), the  *)
(* output value at leaf index lhs_start(i) + j is op(lhs[i][j], rhs[i][j]),*)
(* and row i of the output has the offsets of row i of the lhs; also when  *)
(* the sides are slices with different first offsets.                      *)
C1_ElementwiseAtLhsIndex ==
    (Done /\ BothLists /\ lhs.len = rhs.len /\ NoWidthMismatch) =>
        \A i \in 0..(lhs.len - 1) :
            RowValid(lhs, i) /\ RowValid(rhs, i) =>
                /\ result.kind = "ok"
                /\ RowStart(result.col, i) = RowStart(lhs, i)
                /\ RowWidth(result.col, i) = RowWidth(lhs, i)
                /\ \A j \in 0..(RowWidth(lhs, i) - 1) :
                      LET l_idx == RowStart(lhs, i) + j
                          r_idx == RowStart(rhs, i) + j
                      IN  /\ l_idx \in DOMAIN result.col.values
                          /\ result.col.values[l_idx] =
                                PlOp(op, result.col.leaf, CastLeaf(lhs, l_idx),
                                     CastLeaf(rhs, r_idx))

C1_Witness ==
    /\ Ok /\ BothLists /\ lhs.len = 2 /\ rhs.len = 2 /\ NoWidthMismatch
    /\ op = "Sub"
    /\ RowStart(lhs, 0) # RowStart(rhs, 0)
    /\ \A i \in 0..1 : RowValid(lhs, i) /\ RowValid(rhs, i) /\ RowWidth(lhs, i) = 2

-----------------------------------------------------------------------------
(* Output positions.  Output row i owns a range of leaves; position j of   *)
(* the row is computed from position j of the list operand's row and, for  *)
(* a primitive operand, from its element of that row.  A unit-length       *)
(* operand is repeated over the rows.                                      *)

\* The calls that returned a column from the kernels.
KernelCall == Ok /\ helper.kind = "helper"

OperandIndex(col, i) == IF col.len = 1 THEN 0 ELSE i

OperandLeafIndex(col, i, j) ==
    IF col.depth = 0 THEN OperandIndex(col, i)
    ELSE leaf_range(col.offsets, OperandIndex(col, i))[1] + j

OperandLeaf(col, i, j) == LeafAt(col, OperandLeafIndex(col, i, j))

OutputLeafIndex(i, j) == leaf_range(result.col.offsets, i)[1] + j

OutputLeaf(i, j) == LeafAt(result.col, OutputLeafIndex(i, j))

\* The positions of the non-null rows of the output.
OutputPositions ==
    UNION {{<<i, j>> : j \in 0..(leaf_range(result.col.offsets, i)[2]
                                  - leaf_range(result.col.offsets, i)[1] - 1)} :
              i \in {r \in 0..(result.col.len - 1) : RowValid(result.col, r)}}

IntegerOperands == lhs.leaf = "Int8" /\ rhs.leaf = "Int8"

DenominatorZero(i, j) == rhs.values[OperandLeafIndex(rhs, i, j)] = Zero(rhs.leaf)

\* No outer validity bitmap on any list side.
NoOuterNulls == \A col \in {lhs, rhs} : col.depth >= 1 => ~col.validities[1].some

-----------------------------------------------------------------------------
BothNested == lhs.depth = 2 /\ rhs.depth = 2

(* C3 as stated: two list columns nested more than one level deep whose    *)
(* offsets agree at every level give the nested elementwise result without *)
(* error.                                                                  *)
C3_NestedElementwise ==
    (Done /\ BothNested /\ lhs.offsets = rhs.offsets) =>
        /\ result.kind = "ok"
        /\ result.col.offsets = lhs.offsets
        /\ \A l_idx \in DOMAIN lhs.values :
              /\ l_idx \in DOMAIN result.col.values
              /\ result.col.values[l_idx] =
                    PlOp(op, result.col.leaf, CastLeaf(lhs, l_idx), CastLeaf(rhs, l_idx))

(* C3, amended: two list columns nested more than one level deep are       *)
(* rejected with InvalidOperation, whatever their offsets: try_new takes   *)
(* two list columns only when the inner dtype of both is a primitive.      *)
C3_NestedListsRejected ==
    (Done /\ BothNested) => result = InvalidOperation

C3_Witness ==
    /\ Done /\ BothNested /\ lhs.offsets = rhs.offsets /\ lhs.len = 2
    /\ BufLen(lhs.values) >= 2
    /\ result = InvalidOperation

-----------------------------------------------------------------------------
\* Two lists of equal row count: the rows that are non-null on both sides
\* and differ in width.
MismatchRows ==
    {i \in 0..(lhs.len - 1) :
        RowValid(lhs, i) /\ RowValid(rhs, i) /\ RowWidth(lhs, i) # RowWidth(rhs, i)}

Smallest(S) == CHOOSE x \in S : \A y \in S : x <= y

(* C4: two lists of equal row count: ShapeMismatch iff some row that is    *)
(* non-null on both sides differs in width; the error names the smallest   *)
(* such row with the lhs width and the rhs width; null rows may differ.    *)
C4_MismatchIffNonNullRowDiffers ==
    (Done /\ BothLists /\ lhs.len = rhs.len) =>
        IF MismatchRows = {} THEN result.kind = "ok"
        ELSE LET i == Smallest(MismatchRows)
             IN  result = WidthMismatch(i, RowWidth(lhs, i), RowWidth(rhs, i))

C4_Witness ==
    /\ Done /\ BothLists /\ lhs.len = 2 /\ rhs.len = 2
    /\ ~RowValid(lhs, 0) /\ RowWidth(lhs, 0) # RowWidth(rhs, 0)
    /\ result.kind = "err" /\ result.index = 1

-----------------------------------------------------------------------------
\* Two lists, one of them a unit-length list repeated over the rows of the
\* other; the unit list is non-null, so that finish runs.
UnitList == IF lhs.len = 1 THEN lhs ELSE rhs

FullList == IF lhs.len = 1 THEN rhs ELSE lhs

BroadcastLists ==
    /\ BothLists /\ lhs.len # rhs.len /\ (lhs.len = 1 \/ rhs.len = 1)
    /\ RowValid(UnitList, 0)

BroadcastMismatchRows ==
    {i \in 0..(FullList.len - 1) :
        RowValid(FullList, i) /\ RowWidth(FullList, i) # RowWidth(UnitList, 0)}

(* C5: a list with a unit-length list of width w: ShapeMismatch iff some   *)
(* non-null row of the full-length side has a width other than w.          *)
C5_BroadcastMismatchIff ==
    (Done /\ BroadcastLists) =>
        IF BroadcastMismatchRows = {} THEN result.kind = "ok"
        ELSE result.kind = "err" /\ result.err = "ShapeMismatch" /\ result.what = "widths"

C5_Witness ==
    /\ Ok /\ BroadcastLists /\ FullList.len = 2
    /\ \E i \in 0..1 : ~RowValid(FullList, i) /\ RowWidth(FullList, i) # RowWidth(UnitList, 0)
    /\ \E i \in 0..1 : RowValid(FullList, i) /\ RowWidth(FullList, i) = 2

(* C6: a list with a unit-length list of width w: the row a ShapeMismatch  *)
(* names is the smallest non-null row whose width is not w.                *)
C6_FirstMismatchNamed ==
    (Done /\ BroadcastLists /\ result.kind = "err") =>
        result.index = Smallest(BroadcastMismatchRows)

-----------------------------------------------------------------------------
\* The dtype combinations try_new takes: a list on one side at least, and
\* two lists only of depth 1.
SupportedDtypes ==
    /\ lhs.depth >= 1 \/ rhs.depth >= 1
    /\ (lhs.depth >= 1 /\ rhs.depth >= 1) => BothLists

LengthsCompatible == lhs.len = rhs.len \/ lhs.len = 1 \/ rhs.len = 1

ExpectedBroadcast ==
    IF lhs.len = rhs.len THEN "NoBroadcast"
    ELSE IF lhs.len = 1 THEN "Left"
    ELSE "Right"

ExpectedLen ==
    IF lhs.len = rhs.len THEN lhs.len
    ELSE IF lhs.len = 1 THEN rhs.len
    ELSE lhs.len

ExpectedLeaf ==
    IF op = "Div" \/ "Float64" \in {lhs.leaf, rhs.leaf} THEN "Float64" ELSE "Int8"

ExpectedDepth == IF lhs.depth >= rhs.depth THEN lhs.depth ELSE rhs.depth

UnitListNull ==
    \E col \in {lhs, rhs} : col.depth >= 1 /\ col.len = 1 /\ ~RowValid(col, 0)

Degenerate == lhs.len = 0 \/ rhs.len = 0 \/ UnitListNull

AllNullResult ==
    /\ result.kind = "ok"
    /\ result.col.len = ExpectedLen
    /\ result.col.depth = ExpectedDepth
    /\ result.col.leaf = ExpectedLeaf
    /\ \A i \in 0..(result.col.len - 1) : ~RowValid(result.col, i)

(* C7 as stated: whenever an operand has zero rows or a unit-length list   *)
(* operand is null at row 0, execute returns an all-null list column of    *)
(* the right length and dtype, never an error.                             *)
C7_DegenerateNeverErrors ==
    (Done /\ SupportedDtypes /\ Degenerate) => AllNullResult

(* C7, amended: when the row counts are compatible (equal, or one of them  *)
(* is 1) and an operand has zero rows or a unit-length list operand is     *)
(* null at row 0, execute returns an all-null list column of the right     *)
(* length and dtype; an operand of zero rows against one of two or more    *)
(* rows is a ShapeMismatch error.                                          *)
C7_DegenerateCompatibleLengths ==
    (Done /\ SupportedDtypes /\ Degenerate) =>
        IF LengthsCompatible THEN AllNullResult
        ELSE result = LengthMismatch(lhs.len, rhs.len)

C7_Witness ==
    /\ Ok /\ BothLists /\ lhs.len = 2 /\ rhs.len = 1
    /\ RowValid(lhs, 0) /\ ~RowValid(rhs, 0)
    /\ RowWidth(lhs, 0) # RowWidth(rhs, 0)
    /\ AllNullResult

-----------------------------------------------------------------------------
(* C8: for row counts (l, r): l = r is no broadcast with output_len = l;   *)
(* otherwise l = 1 is a left broadcast with output_len = r; otherwise      *)
(* r = 1 is a right broadcast with output_len = l; anything else is a      *)
(* ShapeMismatch.  The returned column has output_len rows.                *)
C8_LengthClassification ==
    SupportedDtypes =>
        /\ (pc = "finish") =>
              /\ LengthsCompatible
              /\ helper.broadcast = ExpectedBroadcast
              /\ helper.output_len = ExpectedLen
        /\ Done =>
              IF LengthsCompatible
              THEN /\ result.kind = "ok" => result.col.len = ExpectedLen
                   /\ result.kind = "err" => result.what = "widths"
              ELSE result = LengthMismatch(lhs.len, rhs.len)

C8_Witness ==
    /\ Ok /\ lhs.len = 1 /\ rhs.len = 2 /\ helper.kind = "helper"
    /\ result.col.len = 2

-----------------------------------------------------------------------------
\* The wrapping negation of a leaf value.
Neg(T, v) == IF is_float(T) THEN <<-v[1], v[2]>> ELSE Wrap(-v)

(* C9: in every combination of operand kinds and broadcast, each non-null  *)
(* output leaf is op(lhs value, rhs value) in the order of the call, also  *)
(* for the non-commutative ops; and Sub(a, b) is at every non-null         *)
(* position the wrapping negation of Sub(b, a).                            *)
C9_OperandOrder ==
    KernelCall =>
        /\ \A p \in OutputPositions :
              LET out == OutputLeaf(p[1], p[2])
              IN  ~IsNull(out) =>
                     out = <<"value", PlOp(op, result.col.leaf,
                                CastLeaf(lhs, OperandLeafIndex(lhs, p[1], p[2])),
                                CastLeaf(rhs, OperandLeafIndex(rhs, p[1], p[2])))>>
        /\ op = "Sub" =>
              LET rev == execute("Sub", rhs, lhs)
              IN  /\ rev.kind = "ok"
                  /\ \A p \in OutputPositions :
                        LET out == OutputLeaf(p[1], p[2])
                            back == LeafAt(rev.col,
                                       leaf_range(rev.col.offsets, p[1])[1] + p[2])
                        IN  /\ IsNull(out) <=> IsNull(back)
                            /\ ~IsNull(out) =>
                                  /\ back[1] = "value"
                                  /\ out[2] = Neg(result.col.leaf, back[2])

C9_Witness ==
    /\ KernelCall /\ op = "Sub" /\ lhs.depth = 0 /\ rhs.depth = 1
    /\ lhs.len = 1 /\ rhs.len = 2 /\ result.col.leaf = "Int8"
    /\ \E p \in OutputPositions :
          /\ ~IsNull(OutputLeaf(p[1], p[2]))
          /\ OutputLeaf(p[1], p[2])[2] = -128

-----------------------------------------------------------------------------
\* The list sides that are not broadcast.
NonBroadcastLists == {col \in {lhs, rhs} : col.depth >= 1 /\ col.len = result.col.len}

PrimitiveSides == {col \in {lhs, rhs} : col.depth = 0}

RowLeavesNull(i) ==
    LET r == leaf_range(result.col.offsets, i)
    IN  \A l_idx \in r[1]..(r[2] - 1) : IsNull(LeafAt(result.col, l_idx))

(* C10: the outer validity of a computed result has output_len rows and is *)
(* the intersection of the outer validities of the list sides that are not *)
(* broadcast; a null of a primitive side nulls the leaves of its row, not  *)
(* the row.                                                                *)
C10_OuterValidity ==
    KernelCall =>
        /\ result.col.len = ExpectedLen
        /\ result.col.validities[1].some =>
              BufLen(result.col.validities[1].bits) = ExpectedLen
        /\ \A i \in 0..(result.col.len - 1) :
              /\ RowValid(result.col, i) <=> \A col \in NonBroadcastLists : RowValid(col, i)
              /\ \A col \in PrimitiveSides :
                    (IsNull(LeafAt(col, OperandIndex(col, i))) /\ RowValid(result.col, i)) =>
                        RowLeavesNull(i)

C10_Witness ==
    /\ KernelCall /\ lhs.depth = 1 /\ rhs.depth = 0 /\ lhs.len = 2 /\ rhs.len = 2
    /\ \E i \in 0..1 :
          /\ IsNull(LeafAt(rhs, i))
          /\ RowValid(result.col, i)
          /\ RowWidth(result.col, i) = 2
          /\ RowLeavesNull(i)
    /\ \E i \in 0..1 : ~RowValid(result.col, i)

-----------------------------------------------------------------------------
(* The sides as the kernels take them: finish exchanges them when it sets  *)
(* swapped.                                                                *)
KernelLhs == IF helper.swapped THEN rhs ELSE lhs

KernelRhs == IF helper.swapped THEN lhs ELSE rhs

\* The calls that ran one of the offset loops (cases 1-3).
OffsetLoopCall ==
    KernelCall /\ ~(helper.op_apply_type = "ListToPrimitive" /\ helper.broadcast = "Right")

\* The leaf positions under a row range, of null rows too, that have an
\* element of the kernel's rhs to pair with.
PairedPositions ==
    UNION {{<<i, j>> : j \in 0..(leaf_range(result.col.offsets, i)[2]
                                  - leaf_range(result.col.offsets, i)[1] - 1)} :
              i \in 0..(result.col.len - 1)}
      \ {p \in (0..MaxRows) \X (0..(MaxWidth * MaxWidth)) :
            /\ KernelRhs.depth >= 1
            /\ p[1] < result.col.len
            /\ p[2] >= RowWidth(KernelRhs, OperandIndex(KernelRhs, p[1]))}

\* A side without a validity bitmap is all-valid.
LeafValid(col, idx) == BitOr1(col.validity, idx)

BothLeavesValid(i, j) ==
    /\ LeafValid(KernelLhs, OperandLeafIndex(KernelLhs, i, j))
    /\ LeafValid(KernelRhs, OperandLeafIndex(KernelRhs, i, j))

\* Rem and FloorDiv on an integer leaf dtype mask the zero denominators.
MaskedDenominator(i, j) ==
    op \in {"Rem", "FloorDiv"} /\ result.col.leaf = "Int8" /\ DenominatorZero(i, j)

(* C11 as stated: in the offset loops an output leaf under a row range is  *)
(* valid iff the lhs leaf and the rhs element paired with it are valid.    *)
C11_LeafValidIffBothValid ==
    OffsetLoopCall =>
        \A p \in PairedPositions :
            LeafValid(result.col, OutputLeafIndex(p[1], p[2])) <=> BothLeavesValid(p[1], p[2])

(* C11, amended: in the offset loops an output leaf under a row range that *)
(* has a paired rhs element is valid iff the lhs leaf and the rhs element  *)
(* are valid and the position is not a zero denominator of Rem or FloorDiv *)
(* on an integer leaf dtype.                                               *)
C11_LeafValidIffBothValidAndUnmasked ==
    OffsetLoopCall =>
        \A p \in PairedPositions :
            LeafValid(result.col, OutputLeafIndex(p[1], p[2])) <=>
                (BothLeavesValid(p[1], p[2]) /\ ~MaskedDenominator(p[1], p[2]))

C11_Witness ==
    /\ OffsetLoopCall /\ BothLists /\ lhs.len = 2 /\ rhs.len = 2 /\ op = "Rem"
    /\ ~RowValid(lhs, 0) /\ RowValid(lhs, 1)
    /\ \E p \in PairedPositions :
          /\ MaskedDenominator(p[1], p[2]) /\ BothLeavesValid(p[1], p[2])
          /\ ~LeafValid(result.col, OutputLeafIndex(p[1], p[2]))
    /\ \E p \in PairedPositions :
          /\ ~LeafValid(lhs, OperandLeafIndex(lhs, p[1], p[2]))
          /\ ~LeafValid(result.col, OutputLeafIndex(p[1], p[2]))

-----------------------------------------------------------------------------
IntegerRemOrFloorDiv == op \in {"Rem", "FloorDiv"} /\ IntegerOperands

NumeratorZero(i, j) == lhs.values[OperandLeafIndex(lhs, i, j)] = Zero(lhs.leaf)

(* C12: Rem and FloorDiv on an integer leaf dtype through the offset loops:*)
(* an output leaf is null wherever the rhs of the call is 0 at the paired  *)
(* position, also when finish swapped the sides; a 0 in the lhs of the     *)
(* call alone nulls nothing; the call raises nothing but a ShapeMismatch   *)
(* of the shapes.                                                          *)
C12_ZeroDenominatorMasked ==
    (Done /\ IntegerRemOrFloorDiv /\ SupportedDtypes) =>
        /\ result.kind # "panic"
        /\ result.kind = "err" => result.err = "ShapeMismatch"
        /\ OffsetLoopCall =>
              /\ result.col.leaf = "Int8"
              /\ \A p \in PairedPositions :
                    /\ DenominatorZero(p[1], p[2]) =>
                          ~LeafValid(result.col, OutputLeafIndex(p[1], p[2]))
                    /\ (BothLeavesValid(p[1], p[2]) /\ ~DenominatorZero(p[1], p[2])) =>
                          LeafValid(result.col, OutputLeafIndex(p[1], p[2]))

C12_Witness ==
    /\ OffsetLoopCall /\ op = "FloorDiv" /\ IntegerOperands
    /\ helper.swapped /\ helper.list_to_prim_lhs.some
    /\ \E p \in PairedPositions :
          /\ DenominatorZero(p[1], p[2]) /\ BothLeavesValid(p[1], p[2])
          /\ ~NumeratorZero(p[1], p[2])
          /\ IsNull(OutputLeaf(p[1], p[2]))
    /\ \E p \in PairedPositions :
          /\ NumeratorZero(p[1], p[2]) /\ ~DenominatorZero(p[1], p[2])
          /\ OutputLeaf(p[1], p[2]) = <<"value", 0>>

-----------------------------------------------------------------------------
Materialized == helper.list_to_prim_lhs.some

RECURSIVE RowShape(_, _, _)
\* The shape of row idx of list level `level`: the widths of the row and of
\* every list below it, with the validity of the lists below the outermost.
RowShape(col, level, idx) ==
    IF level > col.depth THEN <<"leaf">>
    ELSE LET first == col.offsets[level][idx]
             len   == col.offsets[level][idx + 1] - first
         IN  <<level = 1 \/ BitOr1(col.validities[level], idx),
               [j \in 1..len |-> RowShape(col, level + 1, first + j - 1)]>>

(* C13: a call that returns from the kernels: the output has the depth of  *)
(* the list operand in the lhs position of the kernel, and its offsets at  *)
(* every level and its validities below the outermost are that operand's,  *)
(* or those of the unit-length list repeated output_len times when it was  *)
(* materialized; every row has the per-level widths of the operand's row.  *)
C13_ShapePreserved ==
    KernelCall =>
        /\ KernelLhs.depth >= 1
        /\ result.col.depth = KernelLhs.depth
        /\ ~Materialized =>
              /\ result.col.offsets = KernelLhs.offsets
              /\ \A k \in 2..KernelLhs.depth :
                    result.col.validities[k] = KernelLhs.validities[k]
        /\ Materialized =>
              /\ KernelLhs.len = 1
              /\ \A k \in 1..KernelLhs.depth : result.col.offsets[k][0] = 0
        /\ \A i \in 0..(result.col.len - 1) :
              RowShape(result.col, 1, i) = RowShape(KernelLhs, 1, OperandIndex(KernelLhs, i))

\* The unit-length list on the left: [[1, 2]] + [[1, 2], [3, 4]].
C13_Witness ==
    /\ KernelCall /\ op = "Add" /\ BothLists /\ lhs.len = 1 /\ rhs.len = 2
    /\ helper.swapped /\ IntegerOperands
    /\ Rows(lhs) = <<<<"list", <<<<"value", 1>>, <<"value", 2>>>>>>>>
    /\ Rows(rhs) = << <<"list", <<<<"value", 1>>, <<"value", 2>>>>>>,
                      <<"list", <<<<"value", 3>>, <<"value", 4>>>>>> >>
    /\ result.col.offsets = rhs.offsets
    /\ Rows(result.col) = << <<"list", <<<<"value", 2>>, <<"value", 4>>>>>>,
                             <<"list", <<<<"value", 4>>, <<"value", 6>>>>>> >>

-----------------------------------------------------------------------------
\* The supertype of two of the leaf dtypes.
Supertype(a, b) == IF a = b THEN a ELSE "Float64"

-----------------------------------------------------------------------------
(* C15: the returned column has the name of the lhs of the call, from the  *)
(* canonical cases, from the cases where finish swaps the sides and from   *)
(* the short-circuit.                                                      *)
C15_NameOfLhs ==
    Ok => result.col.name = lhs.name /\ lhs.name # rhs.name

C15_Witness ==
    /\ KernelCall /\ helper.swapped /\ lhs.depth = 0 /\ rhs.depth = 2
    /\ helper.data_lhs.series.name = "b"
    /\ result.col.name = "a"

-----------------------------------------------------------------------------
(* C16: for Add and Mul, execute(op, a, b) and execute(op, b, a) fail      *)
(* together or return columns of the same row count with the same rows:    *)
(* the same nulls and the same value at every position; the names differ.  *)
C16_BroadcastSymmetry ==
    (Done /\ op \in {"Add", "Mul"}) =>
        LET rev == execute(op, rhs, lhs)
        IN  IF result.kind = "ok"
            THEN /\ rev.kind = "ok"
                 /\ rev.col.len = result.col.len
                 /\ Rows(rev.col) = Rows(result.col)
                 /\ rev.col.name = rhs.name
            ELSE rev.kind # "ok"

C16_Witness ==
    /\ KernelCall /\ op = "Mul" /\ lhs.depth = 0 /\ rhs.depth = 2
    /\ lhs.len = 2 /\ rhs.len = 2
    /\ ~RowValid(result.col, 0) /\ RowValid(result.col, 1)
    /\ Rows(execute(op, rhs, lhs).col) = Rows(result.col)
    /\ \E p \in OutputPositions :
          /\ ~IsNull(OutputLeaf(p[1], p[2]))
          /\ OutputLeaf(p[1], p[2])[2] \notin {0, 1}

-----------------------------------------------------------------------------
(* C17: execute writes into no input buffer *)

\* The buffers a kernel may store into: the fresh out_vec or the materialized
\* list_to_prim_lhs for values, a cloned or new bitmap for validity.
OwnedStores(w) ==
    /\ w.values \in {"none", "out_vec", "list_to_prim_lhs"}
    /\ w.validity \in {"none", "clone", "new_with_value"}
    /\ \A i \in w.indices : 0 <= i /\ i < w.capacity

-----------------------------------------------------------------------------
(* C18: a unit-length null operand *)

\* The list operand of a call of a list with a primitive.
ListSide == IF lhs.depth >= 1 THEN lhs ELSE rhs

\* A primitive operand of one row that is null.
UnitNullPrimitive == \E col \in PrimitiveSides : col.len = 1 /\ IsNull(LeafAt(col, 0))

\* The call ended in try_new: no helper was built and no kernel stored anything.
NoKernelRan == helper = NoHelper /\ written = NoStores

\* The outer rows and the offsets of the result are those of the list operand.
KeepsListSide ==
    /\ result.col.len = ListSide.len
    /\ result.col.offsets = ListSide.offsets
    /\ \A i \in 0..(result.col.len - 1) : RowValid(result.col, i) <=> RowValid(ListSide, i)

\* The leaf validity is all-false over the whole leaf array of the list operand.
LeafValidityAllFalse ==
    result.col.validity = SomeBitmap(new_with_value(FALSE, BufLen(ListSide.values)))

(* C18 as stated: a unit-length list operand that is null at row 0 ends    *)
(* the call in try_new with the all-null column of output_len rows; a      *)
(* unit-length null primitive operand goes through a kernel and gives the  *)
(* rows and offsets of the list operand with a leaf validity that is       *)
(* all-false over the whole leaf array.                                    *)
C18_UnitNullOperand ==
    (Done /\ SupportedDtypes) =>
        /\ UnitListNull => AllNullResult /\ NoKernelRan
        /\ (UnitNullPrimitive /\ ~Degenerate) =>
                KernelCall /\ KeepsListSide /\ LeafValidityAllFalse

(* C18, amended: a unit-length list operand that is null at row 0 ends the *)
(* call in try_new with the all-null column of output_len rows, whatever   *)
(* the widths; a unit-length null primitive operand goes through a kernel  *)
(* and gives the rows and offsets of the list operand with every leaf      *)
(* under a row null; the leaf validity is all-false over the whole leaf    *)
(* array when the list operand has two or more rows.                       *)
C18_UnitNullOperandLeavesUnderRows ==
    (Done /\ SupportedDtypes) =>
        /\ UnitListNull => AllNullResult /\ NoKernelRan
        /\ (UnitNullPrimitive /\ ~Degenerate) =>
                /\ KernelCall
                /\ KeepsListSide
                /\ \A i \in 0..(result.col.len - 1) : RowLeavesNull(i)
                /\ ListSide.len >= 2 => LeafValidityAllFalse

\* A sliced list of one row with a null primitive of one row: the leaf
\* before the slice stays valid.
C18_Witness ==
    /\ KernelCall /\ UnitNullPrimitive
    /\ ListSide.len = 1 /\ RowStart(ListSide, 0) = 1 /\ RowWidth(ListSide, 0) = 2
    /\ KeepsListSide
    /\ RowLeavesNull(0)
    /\ BitOr1(result.col.validity, 0)

-----------------------------------------------------------------------------
(* C19: the pairs that reach the kernels *)

\* The pair try_new gave the call.
PlannedPair == <<ApplyTypeOf(lhs, rhs), ExpectedBroadcast>>

\* The pair _finish_impl matched on.
DispatchedPair == <<helper.op_apply_type, helper.broadcast>>

\* The four pairs _finish_impl has a kernel for.
KernelPairs ==
    {<<"ListToList", "NoBroadcast">>, <<"ListToList", "Right">>,
     <<"ListToPrimitive", "NoBroadcast">>, <<"ListToPrimitive", "Right">>}

\* C19: whatever pair try_new planned, the pair _finish_impl matches on after
\* the rewrite of finish is one of the four it has a kernel for; neither the
\* unreachable arms nor any assertion of finish and of the kernels fails, the
\* assert_eq!(offsets.len(), 1) of the list<->list kernels included, which
\* see one level of lhs offsets; list_to_prim_lhs is Some only under
\* (ListToPrimitive, NoBroadcast).
C19_NormalizerClosure ==
    (Done /\ helper.kind = "helper") =>
        /\ result.kind # "panic"
        /\ DispatchedPair \in KernelPairs
        /\ Materialized => DispatchedPair = <<"ListToPrimitive", "NoBroadcast">>
        /\ helper.op_apply_type = "ListToList" => Len(helper.data_lhs.offsets) = 1

C19_Witness ==
    /\ Done /\ helper.kind = "helper"
    /\ PlannedPair = <<"PrimitiveToList", "Right">>
    /\ DispatchedPair = <<"ListToPrimitive", "NoBroadcast">>
    /\ Materialized
    /\ result.kind = "ok"

-----------------------------------------------------------------------------
(* C20: the swapped flag *)

\* finish ran core::mem::swap: the kernel's rhs is the data of the call's lhs.
Exchanged == helper.data_rhs = SideData(lhs)

\* The pairs whose arm of finish exchanges data_lhs and data_rhs.
SwappingPairs ==
    {<<"ListToList", "Left">>, <<"PrimitiveToList", "Left">>,
     <<"PrimitiveToList", "NoBroadcast">>, <<"PrimitiveToList", "Right">>}

\* The side data of the unit list after materialize_broadcasted_list.
MaterializedSide(col) ==
    materialize_broadcasted_list(SideData(col), helper.output_len,
                                 helper.output_primitive_dtype).side_data

\* C20: when _finish_impl runs, swapped is true iff finish exchanged data_lhs
\* and data_rhs.  It is false for the four kernel pairs and for
\* (ListToPrimitive, Left), whose unit list is materialized in place as the
\* lhs; it is true for (ListToList, Left) and for the three PrimitiveToList
\* pairs, (PrimitiveToList, Right) both materializing the rhs unit list and
\* exchanging the sides.
C20_SwappedIffExchanged ==
    (Done /\ helper.kind = "helper") =>
        /\ helper.swapped <=> Exchanged
        /\ helper.swapped <=> PlannedPair \in SwappingPairs
        /\ ~helper.swapped => helper.data_rhs = SideData(rhs)
        /\ Materialized <=> PlannedPair \in {<<"ListToPrimitive", "Left">>,
                                              <<"PrimitiveToList", "Right">>}
        /\ helper.data_lhs =
                CASE PlannedPair = <<"ListToPrimitive", "Left">> -> MaterializedSide(lhs)
                  [] PlannedPair = <<"PrimitiveToList", "Right">> -> MaterializedSide(rhs)
                  [] PlannedPair \in SwappingPairs -> SideData(rhs)
                  [] OTHER -> SideData(lhs)

C20_Witness ==
    /\ Done /\ helper.kind = "helper" /\ result.kind = "ok"
    /\ PlannedPair = <<"ListToPrimitive", "Left">>
    /\ Materialized
    /\ ~helper.swapped /\ ~Exchanged
    /\ op = "Sub"

-----------------------------------------------------------------------------
(* C21: broadcast materialization *)

\* The pairs whose arm of finish calls materialize_broadcasted_list.
MaterializingPairs == {<<"ListToPrimitive", "Left">>, <<"PrimitiveToList", "Right">>}

\* The operand that arm hands to materialize_broadcasted_list.
BroadcastList == IF ApplyTypeOf(lhs, rhs) = "ListToPrimitive" THEN lhs ELSE rhs

\* The number of leaves row 0 of a list column owns through all its levels.
RowLeafCount(col) == leaf_range(col.offsets, 0)[2] - leaf_range(col.offsets, 0)[1]

\* C21: materialize_broadcasted_list is called on a list side of one row
\* with output_len > 1 only, so neither of its asserts fails; the side it
\* leaves has output_len rows and output_len times the leaves of row 0, and
\* that count is n_values, the length of the buffer the in-place kernel
\* stores into.
C21_MaterializationShape ==
    /\ (pc = "finish" /\ DispatchedPair \in MaterializingPairs) =>
            /\ BroadcastList.depth >= 1
            /\ BroadcastList.len = 1
            /\ helper.output_len > 1
    /\ (Done /\ SupportedDtypes /\ LengthsCompatible /\ ~Degenerate
            /\ PlannedPair \in MaterializingPairs) =>
            /\ result.kind # "panic"
            /\ Materialized
            /\ len_proxy(helper.data_lhs.offsets[1]) = helper.output_len
            /\ LeafFullLen(helper.data_lhs.offsets)
                    = helper.output_len * RowLeafCount(BroadcastList)
            /\ helper.list_to_prim_lhs.n_values = LeafFullLen(helper.data_lhs.offsets)
            /\ BufLen(helper.list_to_prim_lhs.arr.values) = helper.list_to_prim_lhs.n_values
            /\ written.values = "list_to_prim_lhs"
            /\ written.capacity = helper.list_to_prim_lhs.n_values

\* A unit list sliced at offset 1 whose row owns two of the three leaves,
\* broadcast to two rows: four leaves in the scratch buffer.
C21_Witness ==
    /\ Done /\ helper.kind = "helper" /\ Materialized /\ result.kind = "ok"
    /\ BroadcastList.depth = 1
    /\ helper.output_len = 2
    /\ RowLeafCount(BroadcastList) = 2
    /\ BufLen(BroadcastList.values) > 2
    /\ written.capacity = 4

-----------------------------------------------------------------------------
(* C22: the unchecked accesses of the flat loops *)

\* Every unchecked access of the loops of cases 1-3 on the helper that was
\* dispatched, as <<buffer, index, length of the buffer>>: value_unchecked on
\* the two leaf arrays, get_bit_unchecked on outer_validity, and the bit reads
\* and writes of combine_validities_*, whose rhs bitmap is that of the rhs or
\* the `!= 0` mask of the length of the rhs array.
UncheckedAccesses ==
    LET lhs_len == IF Materialized THEN BufLen(helper.list_to_prim_lhs.arr.values)
                   ELSE BufLen(helper.data_lhs.series.values)
        rhs_len == BufLen(helper.data_rhs.series.values)
        validity_rhs == helper.data_rhs.series.validity
        offsets_lhs == helper.data_lhs.offsets
        offsets_rhs == helper.data_rhs.offsets
        Leaf(l_idx, r_idx) ==
            {<<"arr_lhs", l_idx, lhs_len>>, <<"arr_rhs", r_idx, rhs_len>>}
            \cup {<<"validity_out", l_idx, lhs_len>>,
                  <<"validity_rhs", r_idx, IF validity_rhs.some THEN BufLen(validity_rhs.bits)
                                           ELSE rhs_len>>}
        Row(i, lhs_start, rhs_start, len) ==
            {<<"outer_validity", i, BufLen(helper.outer_validity)>>}
            \cup UNION {Leaf(lhs_start + j, rhs_start + j) : j \in 0..(len - 1)}
    IN  CASE DispatchedPair = <<"ListToList", "NoBroadcast">> ->
                UNION {Row(i, start_at(offsets_lhs[1], i), start_at(offsets_rhs[1], i),
                           Min(length_at(offsets_lhs[1], i), length_at(offsets_rhs[1], i))) :
                       i \in 0..(Min(len_proxy(offsets_lhs[1]), len_proxy(offsets_rhs[1])) - 1)}
          [] DispatchedPair = <<"ListToList", "Right">> ->
                UNION {Row(i, start_at(offsets_lhs[1], i), offsets_rhs[1][0],
                           Min(length_at(offsets_lhs[1], i), range(offsets_rhs[1]))) :
                       i \in 0..(len_proxy(offsets_lhs[1]) - 1)}
          [] DispatchedPair = <<"ListToPrimitive", "NoBroadcast">> ->
                UNION {UNION {Leaf(l_idx, i) :
                              l_idx \in leaf_range(offsets_lhs, i)[1]..
                                        (leaf_range(offsets_lhs, i)[2] - 1)} :
                       i \in 0..(len_proxy(offsets_lhs[1]) - 1)}
          [] OTHER -> {}

\* The leaf slots of the result under its non-null outer rows.
NonNullRowSlots ==
    UNION {leaf_range(result.col.offsets, i)[1]..(leaf_range(result.col.offsets, i)[2] - 1) :
           i \in {r \in 0..(result.col.len - 1) : RowValid(result.col, r)}}

\* C22: on operands whose offsets are monotone and covered by their leaf
\* buffers, every unchecked read and write of the loops of cases 1-3 has its
\* index inside its buffer and every store of a kernel lies inside the buffer
\* stored into; when execute returns a column that a kernel built in a fresh
\* out_vec, every leaf slot under a non-null outer row was written, so the
\* slots left unwritten lie under null outer rows or outside every row.
C22_FlatLoopsInBounds ==
    (Done /\ helper.kind = "helper") =>
        /\ \A a \in UncheckedAccesses : 0 <= a[2] /\ a[2] < a[3]
        /\ \A i \in written.indices : 0 <= i /\ i < written.capacity
        /\ (result.kind = "ok" /\ written.values = "out_vec") =>
                /\ DOMAIN result.col.values = written.indices
                /\ NonNullRowSlots \subseteq written.indices

\* A sliced list whose null row is wider than the row it is paired with:
\* the slot before the slice and the last slot of the null row stay
\* unwritten, the slots of the non-null row are written.
C22_Witness ==
    /\ KernelCall /\ BothLists /\ lhs.len = 2 /\ rhs.len = 2
    /\ written.values = "out_vec"
    /\ written.capacity = 4
    /\ RowStart(lhs, 0) = 1
    /\ ~RowValid(result.col, 0) /\ RowWidth(lhs, 0) = 2 /\ RowWidth(rhs, 0) = 1
    /\ RowValid(result.col, 1) /\ RowWidth(lhs, 1) = 1
    /\ written.indices = {1, 3}
    /\ NonNullRowSlots = {3}
    /\ UncheckedAccesses # {}

====
